---------------------------- MODULE Spec2Model ----------------------------
(***************************************************************************)
(* SyllaBot (Slack app): the /hubnote dependent-dropdown modal             *)
(* (Record Type -> Pipeline -> Stage -> Record), its option loaders, its   *)
(* submission, and the session store bridging the Zapier callback to the   *)
(* attach-files buttons.                                                   *)
(*                                                                         *)
(* The repository holds several snapshots of the app.  The snapshot that   *)
(* runs is fixed at start-up (variable `variant`):                         *)
(*   "index"     src/index.js            one depsNonce, pipeline block     *)
(*                                        fixed, stage stored in metadata  *)
(*   "nonces"    src/unnamed/part_002    lines 27-1458, one nonce per      *)
(*                                        dependent field                  *)
(*   "overwrite" src/unnamed/part_002    lines 1538-3498, metadata         *)
(*                                        overwrite, fixed block ids       *)
(***************************************************************************)
EXTENDS Integers, Sequences, FiniteSets, TLC

VARIABLES
  variant,      \* which snapshot of the app is deployed
  view,         \* the hubnote modal as Slack holds it (metadata, blocks, state)
  dropdown,     \* the option list Slack currently shows for one select
  inbox,        \* interaction payloads sent by Slack, not yet handled
  lastHandler,  \* the handler that ran last: <<kind of payload, command / action_id / callback_id>>
  trace,        \* the calls (ack, Slack, HubSpot, Zapier) that handler made, in order
  relay,        \* the last payload posted to the Zapier hubnote webhook
  lastAnswer,   \* the option list just answered, with the parents it was computed from
  modals,       \* how many times /hubnote was invoked
  hubnoteSessions, \* the session store: sessionId -> session
  now,          \* Date.now()
  served,       \* how many Zapier callbacks were served
  reply,        \* what the last callback or session lookup answered
  createdAt,    \* when each session was last stored
  calledBack,   \* when the callback created each session
  cache,        \* the list caches: monday boards, groups per board, HubSpot pipelines
  fetched,      \* the last list fetch: what was asked, whether the adapter was invoked
  filled,       \* per list, the last result an adapter returned for an empty search term
  env,          \* process.env: the configuration the process was started with
  notes,        \* the notes HubSpot holds, each with or without its association
  hsAssocCache, \* the cached association type id per record type
  response,     \* the last answer of POST /api/hubnote/create
  task          \* the /cstask modal as Slack holds it: stored board, selected board and group

modalVars == <<view, dropdown, inbox, lastHandler, trace, relay, lastAnswer, modals>>

sessionVars == <<hubnoteSessions, now, served, reply, createdAt, calledBack>>

cacheVars == <<cache, fetched, filled>>

apiVars == <<env, notes, hsAssocCache, response, task>>

vars == <<variant, modalVars, sessionVars, cacheVars, apiVars>>

---------------------------------------------------------------------------
(* Bounds of the model *)

MaxUpdates == 3
MaxActionsInflight == 1
MaxOptionsInflight == 1
MaxModals == 1
MaxCallbacks == 2
MaxTicks == 4

---------------------------------------------------------------------------
(* JavaScript objects: functions from keys to values *)

EmptyObj == [k \in {} |-> ""]

\* meta.k || d, for a string-valued key
StrOr(m, k, d) == IF k \in DOMAIN m /\ m[k] # "" THEN m[k] ELSE d

\* meta.k || d, for a number-valued key
NumOr(m, k, d) == IF k \in DOMAIN m /\ m[k] # 0 THEN m[k] ELSE d

\* { ...a, ...b }
Spread(a, b) == [k \in DOMAIN a \cup DOMAIN b |-> IF k \in DOMAIN b THEN b[k] ELSE a[k]]

Digits == <<"0", "1", "2", "3", "4", "5", "6", "7", "8", "9">>

\* String(n), n a small natural number
String(n) == Digits[n + 1]

\* Number(s), s a decimal numeral
Number(s) == CHOOSE n \in 0..9 : Digits[n + 1] = s

\* the JavaScript value undefined, as the value of a key
Undefined == "<undefined>"

\* the keys whose value is a number (part_002: noncePipeline = 0, nonceStage = 0, ...)
NumberKeys == {"noncePipeline", "nonceStage", "nonceRecord"}

\* the keys JSON.stringify writes: every key but those whose value is undefined
Written(m) == {k \in DOMAIN m : k \in NumberKeys \/ m[k] # Undefined}

\* a faulty encoder: keys holding the empty string are left out of the text
JsonStringify_DropsEmptyStrings(m) ==
  [wf |-> TRUE, obj |-> [k \in {j \in Written(m) : j \in NumberKeys \/ m[j] # ""} |-> m[k]]]

\* JSON.stringify of an object: a JSON text of its keys, strings as strings and numbers as
\* numbers; a key whose value is undefined is left out of the text
JsonStringify(m) ==
  [wf |-> TRUE, obj |-> [k \in Written(m) |-> m[k]]]

\* view.private_metadata when it holds no JSON text: absent (null, undefined), the empty
\* string, or a string JSON.parse rejects
NotJson ==
  {[wf |-> FALSE, obj |-> EmptyObj, raw |-> r] : r \in {"null", "undefined", "", "{not json"}}

\* what a metadata value is: "json" for a JSON text, "none" where no view exists, else the
\* raw value
RawOf(md) == IF "raw" \in DOMAIN md THEN md.raw ELSE IF md.wf THEN "json" ELSE "none"

\* md || "{}"
OrEmptyObjectText(md) ==
  IF RawOf(md) \in {"null", "undefined", ""} THEN JsonStringify(EmptyObj) ELSE md

\* the exception JSON.parse throws
SyntaxError == [threw |-> "SyntaxError"]

\* JSON.parse(text): the value of a JSON text, a SyntaxError for any other string
JSONparse(text) == IF text.wf THEN text.obj ELSE SyntaxError

\* a faulty decoder: no try / catch around JSON.parse
parsePrivateMetadata_NoCatch(md) ==
  JSONparse(OrEmptyObjectText(md))

\* try { return JSON.parse(md || "{}") } catch { return {} }
parsePrivateMetadata(md) ==
  LET parsed == JSONparse(OrEmptyObjectText(md))
  IN IF parsed = SyntaxError THEN EmptyObj ELSE parsed

\* try { if (str == null || str === "") return fallback; return JSON.parse(str) }
\* catch { return fallback }
safeJsonParse(str, fallback) ==
  IF RawOf(str) \in {"null", "undefined", ""} THEN fallback
  ELSE LET parsed == JSONparse(str) IN IF parsed = SyntaxError THEN fallback ELSE parsed

---------------------------------------------------------------------------
(* HubSpot as the adapters see it *)

RecordTypes == {"ticket", "deal"}

\* GET /crm/v3/pipelines/{tickets|deals}, normalised by hsGetPipelines
HubspotPipelines(recordType) ==
  IF recordType = "deal"
  THEN << [id |-> "p3", label |-> "Sales", stages |-> << [id |-> "s4", label |-> "Won"] >>] >>
  ELSE << [id |-> "p1", label |-> "Support",
           stages |-> << [id |-> "s1", label |-> "New"], [id |-> "s2", label |-> "In Progress"] >>],
          [id |-> "p2", label |-> "Billing", stages |-> << [id |-> "s3", label |-> "Open"] >>] >>

\* POST /crm/v3/objects/{type}/search filtered by pipeline and stage
HubspotSearch(recordType, pipelineId, stageId) ==
  IF recordType = "deal"
  THEN (IF pipelineId = "p3" /\ stageId = "s4" THEN << [id |-> "r4", label |-> "Deal r4"] >> ELSE << >>)
  ELSE IF pipelineId = "p1" /\ stageId = "s1" THEN << [id |-> "r1", label |-> "Ticket r1"] >>
  ELSE IF pipelineId = "p1" /\ stageId = "s2" THEN << [id |-> "r2", label |-> "Ticket r2"] >>
  ELSE IF pipelineId = "p2" /\ stageId = "s3" THEN << [id |-> "r3", label |-> "Ticket r3"] >>
  ELSE << >>

Range(s) == {s[i] : i \in 1..Len(s)}

---------------------------------------------------------------------------
(* The modal view as Slack holds it *)

CorrelationId == "hubnote_c1"
OriginChannel == "C1"
OriginUser == "U1"

NoCtx == [recordType |-> "", pipelineId |-> "", stageId |-> ""]

SelectFields == {"pipeline", "stage", "record"}

\* block_id = base or `${base}_${suffix}`
BlockId(base, suffix) == <<base, suffix>>

NoView ==
  [ open |-> FALSE, hash |-> 0,
    private_metadata |-> [wf |-> FALSE, obj |-> EmptyObj],
    blocks |-> [f \in SelectFields |-> BlockId("", "")],
    inputs |-> [title |-> BlockId("", ""), body |-> BlockId("", "")],
    state |-> [recordType |-> "", pipeline |-> "", stage |-> "", record |-> "",
               title |-> "", body |-> ""] ]

NoDropdown == [field |-> "none", options |-> << >>]

NoRelay == [sent |-> FALSE]

NoAnswer ==
  [field |-> "none", options |-> << >>, under |-> NoCtx, persisted |-> NoCtx, stored |-> "",
   waited |-> 0, term |-> "", raw |-> "none"]

\* the parents stored in a metadata object
MetaCtx(m) == [recordType |-> StrOr(m, "recordType", ""),
               pipelineId |-> StrOr(m, "pipelineId", ""),
               stageId |-> StrOr(m, "stageId", "")]

\* the blocks of the two plain_text_input elements
NoteInputs ==
  [title |-> BlockId("note_title_block_v2", ""), body |-> BlockId("note_body_block_v2", "")]

\* a faulty builder: the block ids of the text inputs follow the nonce of the record select
ViewDoc_NoncedInputs(md, blocks, titleInitial, bodyInitial) ==
  [private_metadata |-> md, blocks |-> blocks,
   inputs |-> [title |-> BlockId("note_title_block_v2", blocks.record[2]),
               body |-> BlockId("note_body_block_v2", blocks.record[2])],
   titleInitial |-> titleInitial, bodyInitial |-> bodyInitial]

\* A view document handed to views.open / views.update
ViewDoc(md, blocks, titleInitial, bodyInitial) ==
  [private_metadata |-> md, blocks |-> blocks, inputs |-> NoteInputs,
   titleInitial |-> titleInitial, bodyInitial |-> bodyInitial]

\* views.open: a fresh view, every input empty unless the document gives an initial value
SlackViewsOpen(doc, recordTypeInitial) ==
  [ open |-> TRUE, hash |-> 0,
    private_metadata |-> doc.private_metadata,
    blocks |-> doc.blocks,
    inputs |-> doc.inputs,
    state |-> [recordType |-> recordTypeInitial, pipeline |-> "", stage |-> "", record |-> "",
               title |-> doc.titleInitial, body |-> doc.bodyInitial] ]

\* views.update is accepted only for the open view and the hash the caller read
SlackUpdateAccepted(cur, hash) == cur.open /\ hash = cur.hash

\* views.update: Slack keeps what the user entered in every block whose block_id is
\* unchanged and discards the state of a block whose block_id changed; an input that
\* holds nothing shows the initial_value of the document
SlackViewsUpdate(cur, doc) ==
  [ open |-> TRUE, hash |-> cur.hash + 1,
    private_metadata |-> doc.private_metadata,
    blocks |-> doc.blocks,
    inputs |-> doc.inputs,
    state |-> [k \in DOMAIN cur.state |->
                 IF k \in SelectFields
                 THEN (IF doc.blocks[k] = cur.blocks[k] THEN cur.state[k] ELSE "")
                 ELSE IF k \in {"title", "body"}
                 THEN (LET initial == IF k = "title" THEN doc.titleInitial ELSE doc.bodyInitial
                       IN IF doc.inputs[k] = cur.inputs[k] /\ cur.state[k] # ""
                          THEN cur.state[k] ELSE initial)
                 ELSE cur.state[k]] ]

\* value.trim(), for the texts a user types here
Trim(text) == IF text = " " THEN "" ELSE text

\* find selected_option.value by action_id regardless of block_id
findSelectedOptionValue(values, field) == values[field]

---------------------------------------------------------------------------
(* Option lists *)

Queries == {""}

option(text, value) == [text |-> text, value |-> value]

\* the characters of the texts that occur as labels and as search terms
Chars(str) ==
  CASE str = "" -> << >>
     [] str = "Support" -> <<"S", "u", "p", "p", "o", "r", "t">>
     [] str = "Billing" -> <<"B", "i", "l", "l", "i", "n", "g">>
     [] str = "Sales" -> <<"S", "a", "l", "e", "s">>
     [] str = "New" -> <<"N", "e", "w">>
     [] str = "In Progress" -> <<"I", "n", " ", "P", "r", "o", "g", "r", "e", "s", "s">>
     [] str = "Open" -> <<"O", "p", "e", "n">>
     [] str = "Won" -> <<"W", "o", "n">>
     [] str = "Alpha" -> <<"A", "l", "p", "h", "a">>
     [] str = "Beta" -> <<"B", "e", "t", "a">>
     [] str = "Todo" -> <<"T", "o", "d", "o">>
     [] str = "Done" -> <<"D", "o", "n", "e">>
     [] str = " " -> <<" ">>
     [] str = "s" -> <<"s">>
     [] str = " S " -> <<" ", "S", " ">>
     [] str = "zz" -> <<"z", "z">>

\* c.toLowerCase(), for the letters that occur in upper case
LowerChar(c) ==
  CASE c = "A" -> "a" [] c = "B" -> "b" [] c = "D" -> "d" [] c = "I" -> "i"
    [] c = "N" -> "n" [] c = "O" -> "o" [] c = "P" -> "p" [] c = "S" -> "s"
    [] c = "T" -> "t" [] c = "W" -> "w" [] OTHER -> c

\* text.toLowerCase()
toLowerCase(cs) == [i \in 1..Len(cs) |-> LowerChar(cs[i])]

\* text.trim()
RECURSIVE trim(_)
trim(cs) ==
  IF cs = << >> THEN cs
  ELSE IF Head(cs) = " " THEN trim(Tail(cs))
  ELSE IF cs[Len(cs)] = " " THEN trim(SubSeq(cs, 1, Len(cs) - 1))
  ELSE cs

\* text.includes(part)
includes(cs, part) ==
  \E i \in 0..(Len(cs) - Len(part)) : SubSeq(cs, i + 1, i + Len(part)) = part

\* (options?.value || "").trim().toLowerCase()
SearchTerm(value) == toLowerCase(trim(Chars(value)))

\* .filter((x) => !q || (x.label || "").toLowerCase().includes(q))
LabelMatches(label, q) ==
  SearchTerm(q) = << >> \/ includes(toLowerCase(Chars(label)), SearchTerm(q))

SelectSeq2(s, q) == SelectSeq(s, LAMBDA x : LabelMatches(x.label, q))

\* .slice(0, 100)
OptionsLimit == 100

ToOptions_Unlimited(items) == [i \in 1..Len(items) |-> option(items[i].label, items[i].id)]

\* .slice(0, 100).map((x) => ({ text: x.label, value: String(x.id) }))
ToOptions(items) ==
  [i \in 1..(IF Len(items) < OptionsLimit THEN Len(items) ELSE OptionsLimit) |->
     option(items[i].label, items[i].id)]

OptionValues(opts) == {opts[i].value : i \in 1..Len(opts)}

\* what an options handler answers: the ack payload and the parents it computed from
Answer(field, opts, under) == [field |-> field, options |-> opts, under |-> under]

\* how long HubSpot takes to answer a record search, in ms: below every timeout, or above
\* the 3000 ms Slack leaves for the answer and below the timeout of hubspotRequest
SearchMs == {200, 5000}

\* whether the handler gets as far as hsSearchRecords
Searches(ans) ==
  \A i \in 1..Len(ans.options) : ans.options[i].value \notin
    {"SELECT_PIPELINE_FIRST", "SELECT_STAGE_FIRST", "__select_pipeline__", "__select_stage__"}

\* await hsSearchRecords(...): the handler answers when the search has
AwaitSearch(ans, ms) ==
  [field |-> ans.field, options |-> ans.options, under |-> ans.under,
   waited |-> IF Searches(ans) THEN ms ELSE 0]

---------------------------------------------------------------------------
(* src/index.js *)

\* a faulty builder: rendering advances the nonce it embeds in the block ids
Index_buildHubnoteModalV2_AdvancesNonce(correlationId, originChannelId, originUserId, metaOverride) ==
  LET meta == Spread([correlationId |-> correlationId, originChannelId |-> originChannelId,
                      originUserId |-> originUserId, version |-> "v2", recordType |-> "",
                      pipelineId |-> "", stageId |-> "", depsNonce |-> "0"], metaOverride)
      nonce == String(Number(StrOr(meta, "depsNonce", "0")) + 1)
  IN ViewDoc(JsonStringify(meta),
             [pipeline |-> BlockId("pipeline_block_v2", ""),
              stage |-> BlockId("stage_block_v2", nonce),
              record |-> BlockId("record_block_v2", nonce)],
             "", "")

Index_buildHubnoteModalV2(correlationId, originChannelId, originUserId, metaOverride) ==
  LET meta == Spread([correlationId |-> correlationId, originChannelId |-> originChannelId,
                      originUserId |-> originUserId, version |-> "v2", recordType |-> "",
                      pipelineId |-> "", stageId |-> "", depsNonce |-> "0"], metaOverride)
      nonce == StrOr(meta, "depsNonce", "0")
  IN ViewDoc(JsonStringify(meta),
             [pipeline |-> BlockId("pipeline_block_v2", ""),
              stage |-> BlockId("stage_block_v2", nonce),
              record |-> BlockId("record_block_v2", nonce)],
             "", "")

buildCleanViewPayload(v, privateMetadataString) ==
  ViewDoc(privateMetadataString, v.blocks, "", "")

\* a faulty record-type handler: the stored pipelineId survives
Index_RecordTypeRebuilt_KeepsPipeline(ev) ==
  LET meta == parsePrivateMetadata(ev.view.private_metadata)
      nextMeta == Spread(meta, [recordType |-> ev.value, stageId |-> "",
                                depsNonce |-> String(Number(StrOr(meta, "depsNonce", "0")) + 1)])
  IN Index_buildHubnoteModalV2(StrOr(nextMeta, "correlationId", ""),
                               StrOr(nextMeta, "originChannelId", ""),
                               StrOr(nextMeta, "originUserId", ""), nextMeta)

\* app.action("hubnote_v2_record_type_select"): the view handed to views.update
Index_RecordTypeRebuilt(ev) ==
  LET meta == parsePrivateMetadata(ev.view.private_metadata)
      nextMeta == Spread(meta, [recordType |-> ev.value, pipelineId |-> "", stageId |-> "",
                                depsNonce |-> String(Number(StrOr(meta, "depsNonce", "0")) + 1)])
  IN Index_buildHubnoteModalV2(StrOr(nextMeta, "correlationId", ""),
                               StrOr(nextMeta, "originChannelId", ""),
                               StrOr(nextMeta, "originUserId", ""), nextMeta)

\* a faulty pipeline handler: the stored stageId survives
Index_PipelineRebuilt_KeepsStage(ev) ==
  LET meta == parsePrivateMetadata(ev.view.private_metadata)
      nextMeta == Spread(meta, [pipelineId |-> ev.value,
                                depsNonce |-> String(Number(StrOr(meta, "depsNonce", "0")) + 1)])
  IN Index_buildHubnoteModalV2(StrOr(nextMeta, "correlationId", ""),
                               StrOr(nextMeta, "originChannelId", ""),
                               StrOr(nextMeta, "originUserId", ""), nextMeta)

\* app.action("hubnote_v2_pipeline_select"): the view handed to views.update
Index_PipelineRebuilt(ev) ==
  LET meta == parsePrivateMetadata(ev.view.private_metadata)
      nextMeta == Spread(meta, [pipelineId |-> ev.value, stageId |-> "",
                                depsNonce |-> String(Number(StrOr(meta, "depsNonce", "0")) + 1)])
  IN Index_buildHubnoteModalV2(StrOr(nextMeta, "correlationId", ""),
                               StrOr(nextMeta, "originChannelId", ""),
                               StrOr(nextMeta, "originUserId", ""), nextMeta)

\* app.action("hubnote_v2_stage_select"): metadata only, blocks and nonce untouched
Index_StageRebuilt(ev) ==
  LET meta == parsePrivateMetadata(ev.view.private_metadata)
      meta1 == Spread(meta, [stageId |-> ev.value])
      meta2 == IF ev.text # "" THEN Spread(meta1, [stageLabel |-> ev.text]) ELSE meta1
  IN buildCleanViewPayload(ev.view, JsonStringify(meta2))

\* app.options("hubnote_v2_pipeline_select")
Index_PipelineOptions(md, q, hubspotOk) ==
  LET meta == parsePrivateMetadata(md)
      recordType == StrOr(meta, "recordType", "ticket")
      under == [recordType |-> recordType, pipelineId |-> "", stageId |-> ""]
      opts == ToOptions(SelectSeq2(HubspotPipelines(recordType), q))
  IN IF ~hubspotOk THEN Answer("pipeline", << option("ERROR loading pipelines", "ERROR_PIPELINES") >>, under)
     ELSE IF Len(opts) = 0 THEN Answer("pipeline", << option("No pipelines found", "NO_PIPELINES") >>, under)
     ELSE Answer("pipeline", opts, under)

StagesOf_FirstPipeline(pipelines, pipelineId) ==
  IF \E i \in 1..Len(pipelines) : pipelines[i].id = pipelineId
  THEN pipelines[CHOOSE i \in 1..Len(pipelines) :
                   /\ pipelines[i].id = pipelineId
                   /\ \A j \in 1..(i - 1) : pipelines[j].id # pipelineId].stages
  ELSE pipelines[1].stages

\* pipelines.find((p) => String(p.id) === String(pipelineId))?.stages || []
StagesOf(pipelines, pipelineId) ==
  IF \E i \in 1..Len(pipelines) : pipelines[i].id = pipelineId
  THEN pipelines[CHOOSE i \in 1..Len(pipelines) :
                   /\ pipelines[i].id = pipelineId
                   /\ \A j \in 1..(i - 1) : pipelines[j].id # pipelineId].stages
  ELSE << >>

\* a faulty stage loader: no check of the stored pipelineId
Index_StageOptions_NoPipelineCheck(md, q, hubspotOk) ==
  LET meta == parsePrivateMetadata(md)
      recordType == StrOr(meta, "recordType", "ticket")
      pipelineId == StrOr(meta, "pipelineId", "")
      under == [recordType |-> recordType, pipelineId |-> pipelineId, stageId |-> ""]
      opts == ToOptions(SelectSeq2(StagesOf(HubspotPipelines(recordType), pipelineId), q))
  IN IF ~hubspotOk THEN Answer("stage", << option("ERROR loading stages", "ERROR_STAGES") >>, under)
     ELSE IF Len(opts) = 0 THEN Answer("stage", << option("No stages found", "NO_STAGES") >>, under)
     ELSE Answer("stage", opts, under)

\* app.options("hubnote_v2_stage_select")
Index_StageOptions(md, q, hubspotOk) ==
  LET meta == parsePrivateMetadata(md)
      recordType == StrOr(meta, "recordType", "ticket")
      pipelineId == StrOr(meta, "pipelineId", "")
      under == [recordType |-> recordType, pipelineId |-> pipelineId, stageId |-> ""]
      opts == ToOptions(SelectSeq2(StagesOf(HubspotPipelines(recordType), pipelineId), q))
  IN IF pipelineId = "" THEN Answer("stage", << option("Select a pipeline first", "SELECT_PIPELINE_FIRST") >>, under)
     ELSE IF ~hubspotOk THEN Answer("stage", << option("ERROR loading stages", "ERROR_STAGES") >>, under)
     ELSE IF Len(opts) = 0 THEN Answer("stage", << option("No stages found", "NO_STAGES") >>, under)
     ELSE Answer("stage", opts, under)

\* app.options("hubnote_v2_record_select")
Index_RecordOptions(md, q, hubspotOk) ==
  LET meta == parsePrivateMetadata(md)
      recordType == StrOr(meta, "recordType", "ticket")
      pipelineId == StrOr(meta, "pipelineId", "")
      stageId == StrOr(meta, "stageId", "")
      under == [recordType |-> recordType, pipelineId |-> pipelineId, stageId |-> stageId]
      opts == ToOptions(HubspotSearch(recordType, pipelineId, stageId))
  IN IF pipelineId = "" THEN Answer("record", << option("Select a pipeline first", "SELECT_PIPELINE_FIRST") >>, under)
     ELSE IF stageId = "" THEN Answer("record", << option("Select a stage first", "SELECT_STAGE_FIRST") >>, under)
     ELSE IF ~hubspotOk THEN Answer("record", << option("ERROR loading records", "ERROR_RECORDS") >>, under)
     ELSE IF Len(opts) = 0 THEN Answer("record", << option("No records found", "NO_RECORDS") >>, under)
     ELSE Answer("record", opts, under)

\* app.view("hubnote_modal_submit_v2"): the values the handler reads
Index_SubmitRead(v) ==
  LET meta == parsePrivateMetadata(v.private_metadata)
      sel(f) == findSelectedOptionValue(v.state, f)
  IN [recordType |-> IF sel("recordType") # "" THEN sel("recordType") ELSE StrOr(meta, "recordType", ""),
      pipelineId |-> IF sel("pipeline") # "" THEN sel("pipeline") ELSE StrOr(meta, "pipelineId", ""),
      stageId |-> IF sel("stage") # "" THEN sel("stage") ELSE StrOr(meta, "stageId", ""),
      recordId |-> sel("record"),
      noteTitle |-> Trim(v.state.title),
      noteBody |-> Trim(v.state.body)]

\* app.view("hubnote_modal_submit_v2"): the inline errors, keyed by block_id
Index_SubmitErrors(r) ==
  (IF r.recordType = "" THEN {BlockId("record_type_block_v2", "")} ELSE {})
  \cup (IF r.pipelineId = "" THEN {BlockId("pipeline_block_v2", "")} ELSE {})
  \cup (IF r.noteTitle = "" THEN {BlockId("note_title_block_v2", "")} ELSE {})
  \cup (IF r.noteBody = "" THEN {BlockId("note_body_block_v2", "")} ELSE {})

\* a faulty payload: a correlation id minted at submission
Index_SubmitPayload_FreshCorrelation(v, r) ==
  LET meta == parsePrivateMetadata(v.private_metadata)
  IN [sent |-> TRUE,
      hubspot_object_type |-> r.recordType, hubspot_object_id |-> r.recordId,
      hubspot_pipeline_id |-> r.pipelineId, hubspot_stage_id |-> r.stageId,
      note_title |-> r.noteTitle, note_body |-> r.noteBody,
      correlation_id |-> "hubnote_fresh",
      origin_channel_id |-> StrOr(meta, "originChannelId", OriginUser),
      origin_user_id |-> StrOr(meta, "originUserId", OriginUser)]

\* app.view("hubnote_modal_submit_v2"): the JSON posted to ZAPIER_HUBNOTE_WEBHOOK_URL
Index_SubmitPayload(v, r) ==
  LET meta == parsePrivateMetadata(v.private_metadata)
  IN [sent |-> TRUE,
      hubspot_object_type |-> r.recordType, hubspot_object_id |-> r.recordId,
      hubspot_pipeline_id |-> r.pipelineId, hubspot_stage_id |-> r.stageId,
      note_title |-> r.noteTitle, note_body |-> r.noteBody,
      correlation_id |-> StrOr(meta, "correlationId", "hubnote_fresh"),
      origin_channel_id |-> StrOr(meta, "originChannelId", OriginUser),
      origin_user_id |-> StrOr(meta, "originUserId", OriginUser)]

---------------------------------------------------------------------------
(* src/unnamed/part_002, first snapshot: one nonce per dependent select *)

\* bump(meta, key)
bump(meta, key) == Spread(meta, [k \in {key} |-> NumOr(meta, key, 0) + 1])

Nonces_buildHubnoteModalV2(a) ==
  LET meta == [correlationId |-> a.correlationId, originChannelId |-> a.originChannelId,
               originUserId |-> a.originUserId, version |-> "v2", recordType |-> a.recordType,
               pipelineId |-> a.pipelineId, stageId |-> a.stageId,
               noncePipeline |-> a.noncePipeline, nonceStage |-> a.nonceStage,
               nonceRecord |-> a.nonceRecord]
  IN ViewDoc(JsonStringify(meta),
             [pipeline |-> BlockId("pipeline_block_v2", String(a.noncePipeline)),
              stage |-> BlockId("stage_block_v2", String(a.nonceStage)),
              record |-> BlockId("record_block_v2", String(a.nonceRecord))],
             a.noteTitleInitial, a.noteBodyInitial)

\* getPlainTextInputValue(view.state.values, blockId, actionId)
getPlainTextInputValue(values, field) == values[field]

\* the view an action handler hands to views.update, from the metadata it computed
Nonces_Rebuilt(ev, meta) ==
  Nonces_buildHubnoteModalV2(
    [correlationId |-> StrOr(meta, "correlationId", ""),
     originChannelId |-> StrOr(meta, "originChannelId", ""),
     originUserId |-> StrOr(meta, "originUserId", ""),
     recordType |-> StrOr(meta, "recordType", "ticket"),
     pipelineId |-> StrOr(meta, "pipelineId", ""), stageId |-> StrOr(meta, "stageId", ""),
     noncePipeline |-> NumOr(meta, "noncePipeline", 0),
     nonceStage |-> NumOr(meta, "nonceStage", 0),
     nonceRecord |-> NumOr(meta, "nonceRecord", 0),
     noteTitleInitial |-> getPlainTextInputValue(ev.view.state, "title"),
     noteBodyInitial |-> getPlainTextInputValue(ev.view.state, "body")])

\* app.action("hubnote_v2_record_type_select")
Nonces_RecordTypeRebuilt(ev) ==
  LET meta == parsePrivateMetadata(ev.view.private_metadata)
      selectedRecordType == IF ev.value # "" THEN ev.value ELSE "ticket"
      meta1 == Spread(meta, [recordType |-> selectedRecordType, pipelineId |-> "", stageId |-> ""])
      nextMeta == bump(bump(bump(meta1, "noncePipeline"), "nonceStage"), "nonceRecord")
  IN Nonces_Rebuilt(ev, nextMeta)

\* app.action("hubnote_v2_pipeline_select")
Nonces_PipelineRebuilt(ev) ==
  LET meta == parsePrivateMetadata(ev.view.private_metadata)
      meta1 == Spread(meta, [pipelineId |-> ev.value, stageId |-> ""])
      nextMeta == bump(bump(meta1, "nonceStage"), "nonceRecord")
  IN Nonces_Rebuilt(ev, nextMeta)

\* app.action("hubnote_v2_stage_select")
Nonces_StageRebuilt(ev) ==
  LET meta == parsePrivateMetadata(ev.view.private_metadata)
      nextMeta == bump(Spread(meta, [stageId |-> ev.value]), "nonceRecord")
  IN Nonces_Rebuilt(ev, nextMeta)

\* app.options("hubnote_v2_pipeline_select"): served from hsCache only
Nonces_PipelineOptions(md, q, cached) ==
  LET meta == parsePrivateMetadata(md)
      recordType == StrOr(meta, "recordType", "ticket")
      under == [recordType |-> recordType, pipelineId |-> "", stageId |-> ""]
      matched == ToOptions(SelectSeq2(HubspotPipelines(recordType), q))
  IN IF ~cached THEN Answer("pipeline", << option("Loading pipelines... try again", "__loading__") >>, under)
     ELSE IF Len(matched) = 0 THEN Answer("pipeline", << option("No results", "__none__") >>, under)
     ELSE Answer("pipeline", matched, under)

\* app.options("hubnote_v2_stage_select")
Nonces_StageOptions(md, q, cached) ==
  LET meta == parsePrivateMetadata(md)
      recordType == StrOr(meta, "recordType", "ticket")
      pipelineId == StrOr(meta, "pipelineId", "")
      under == [recordType |-> recordType, pipelineId |-> pipelineId, stageId |-> ""]
      matched == ToOptions(SelectSeq2(StagesOf(HubspotPipelines(recordType), pipelineId), q))
  IN IF pipelineId = "" \/ pipelineId = "__loading__"
     THEN Answer("stage", << option("Select a pipeline first", "__select_pipeline__") >>, under)
     ELSE IF ~cached THEN Answer("stage", << option("Loading stages... try again", "__loading__") >>, under)
     ELSE IF Len(matched) = 0 THEN Answer("stage", << option("No results", "__none__") >>, under)
     ELSE Answer("stage", matched, under)

\* setTimeout(() => reject(new Error("timeout")), 2500)
RaceMs == 2500

\* Promise.race([hsSearchRecords(...), the timer]): which one settles first
RaceSearch(ms, hubspotOk) ==
  IF ms >= RaceMs THEN "timeout" ELSE IF hubspotOk THEN "ok" ELSE "error"

\* app.options("hubnote_v2_record_select"): the search raced against 2500 ms
Nonces_RecordOptions(md, q, outcome) ==
  LET meta == parsePrivateMetadata(md)
      recordType == StrOr(meta, "recordType", "ticket")
      pipelineId == StrOr(meta, "pipelineId", "")
      stageId == StrOr(meta, "stageId", "")
      under == [recordType |-> recordType, pipelineId |-> pipelineId, stageId |-> stageId]
  IN IF pipelineId = "" \/ pipelineId = "__loading__"
     THEN Answer("record", << option("Select a pipeline first", "__select_pipeline__") >>, under)
     ELSE IF stageId = "" \/ stageId = "__loading__"
     THEN Answer("record", << option("Select a stage first", "__select_stage__") >>, under)
     ELSE IF outcome = "timeout"
     THEN Answer("record", << option("Search timed out - try again", "__timeout__") >>, under)
     ELSE IF outcome = "error"
     THEN Answer("record", << option("Error searching records", "__error__") >>, under)
     ELSE Answer("record", ToOptions(HubspotSearch(recordType, pipelineId, stageId)), under)

\* value.startsWith("__")
StartsWithUnderscores(value) ==
  value \in {"__loading__", "__none__", "__error__", "__timeout__",
             "__select_pipeline__", "__select_stage__"}

\* app.view("hubnote_modal_submit_v2"): the values the handler reads
Nonces_SubmitRead(v) ==
  LET meta == parsePrivateMetadata(v.private_metadata)
      sel(f) == findSelectedOptionValue(v.state, f)
  IN [recordType |-> IF StrOr(meta, "recordType", "") # "" THEN meta.recordType
                     ELSE IF sel("recordType") # "" THEN sel("recordType") ELSE "ticket",
      pipelineId |-> IF StrOr(meta, "pipelineId", "") # "" THEN meta.pipelineId ELSE sel("pipeline"),
      stageId |-> IF StrOr(meta, "stageId", "") # "" THEN meta.stageId ELSE sel("stage"),
      recordId |-> sel("record"),
      noteTitle |-> Trim(v.state.title),
      noteBody |-> Trim(v.state.body)]

\* app.view("hubnote_modal_submit_v2"): the errors object
Nonces_SubmitErrors(r) ==
  (IF r.pipelineId = "" \/ StartsWithUnderscores(r.pipelineId)
   THEN {BlockId("pipeline_block_v2", "")} ELSE {})
  \cup (IF r.stageId = "" \/ StartsWithUnderscores(r.stageId)
        THEN {BlockId("stage_block_v2", "")} ELSE {})
  \cup (IF r.recordId = "" \/ StartsWithUnderscores(r.recordId)
        THEN {BlockId("record_block_v2", "")} ELSE {})
  \cup (IF r.noteTitle = "" THEN {BlockId("note_title_block_v2", "")} ELSE {})
  \cup (IF r.noteBody = "" THEN {BlockId("note_body_block_v2", "")} ELSE {})

\* app.view("hubnote_modal_submit_v2"): the JSON posted to the Zapier hook
Nonces_SubmitPayload(v, r) ==
  LET meta == parsePrivateMetadata(v.private_metadata)
  IN [sent |-> TRUE,
      hubspot_object_type |-> r.recordType, hubspot_object_id |-> r.recordId,
      pipeline_id |-> r.pipelineId, stage_id |-> r.stageId,
      note_title |-> r.noteTitle, note_body |-> r.noteBody,
      correlation_id |-> StrOr(meta, "correlationId", "hubnote_fresh"),
      origin_channel_id |-> StrOr(meta, "originChannelId", OriginUser),
      origin_user_id |-> StrOr(meta, "originUserId", OriginUser)]

---------------------------------------------------------------------------
(* src/unnamed/part_002, second snapshot: metadata overwrite, fixed block ids *)

Overwrite_buildHubnoteModalV2(correlationId, originChannelId, originUserId) ==
  ViewDoc(JsonStringify([correlationId |-> correlationId, originChannelId |-> originChannelId,
                         originUserId |-> originUserId, version |-> "v2", recordType |-> "ticket",
                         pipelineId |-> "", stageId |-> "", recordId |-> ""]),
          [pipeline |-> BlockId("pipeline_block_v2", ""),
           stage |-> BlockId("stage_block_v2", ""),
           record |-> BlockId("record_block_v2", "")],
          "", "")

\* app.action("hubnote_v2_record_type_select")
Overwrite_RecordTypeRebuilt(ev) ==
  LET meta == parsePrivateMetadata(ev.view.private_metadata)
      selected == IF ev.value # "" THEN ev.value ELSE "ticket"
      nextMeta == Spread(meta, [recordType |-> selected, pipelineId |-> "", stageId |-> "",
                                recordId |-> ""])
  IN buildCleanViewPayload(ev.view, JsonStringify(nextMeta))

\* app.action("hubnote_v2_pipeline_select")
Overwrite_PipelineRebuilt(ev) ==
  LET meta == parsePrivateMetadata(ev.view.private_metadata)
      nextMeta == Spread(meta, [pipelineId |-> ev.value, stageId |-> "", recordId |-> ""])
  IN buildCleanViewPayload(ev.view, JsonStringify(nextMeta))

\* app.action("hubnote_v2_stage_select")
Overwrite_StageRebuilt(ev) ==
  LET meta == parsePrivateMetadata(ev.view.private_metadata)
      nextMeta == Spread(meta, [stageId |-> ev.value, recordId |-> ""])
  IN buildCleanViewPayload(ev.view, JsonStringify(nextMeta))

\* app.options("hubnote_v2_pipeline_select")
Overwrite_PipelineOptions(md, q, hubspotOk) ==
  LET meta == parsePrivateMetadata(md)
      recordType == StrOr(meta, "recordType", "ticket")
      under == [recordType |-> recordType, pipelineId |-> "", stageId |-> ""]
      opts == ToOptions(SelectSeq2(HubspotPipelines(recordType), q))
  IN IF ~hubspotOk
     THEN Answer("pipeline", << option("ERROR loading pipelines (check Render logs)", "ERROR_PIPELINES") >>, under)
     ELSE IF Len(opts) = 0
     THEN Answer("pipeline", << option("No pipelines found (check HubSpot token/scopes)", "NO_PIPELINES") >>, under)
     ELSE Answer("pipeline", opts, under)

\* app.options("hubnote_v2_stage_select")
Overwrite_StageOptions(md, q, hubspotOk) ==
  LET meta == parsePrivateMetadata(md)
      recordType == StrOr(meta, "recordType", "ticket")
      pipelineId == StrOr(meta, "pipelineId", "")
      under == [recordType |-> recordType, pipelineId |-> pipelineId, stageId |-> ""]
      opts == ToOptions(SelectSeq2(StagesOf(HubspotPipelines(recordType), pipelineId), q))
  IN IF pipelineId = "" THEN Answer("stage", << option("Select a pipeline first", "SELECT_PIPELINE_FIRST") >>, under)
     ELSE IF ~hubspotOk
     THEN Answer("stage", << option("ERROR loading stages (check Render logs)", "ERROR_STAGES") >>, under)
     ELSE IF Len(opts) = 0
     THEN Answer("stage", << option("No stages found for this pipeline", "NO_STAGES") >>, under)
     ELSE Answer("stage", opts, under)

\* app.options("hubnote_v2_record_select")
Overwrite_RecordOptions(md, q, hubspotOk) ==
  LET meta == parsePrivateMetadata(md)
      recordType == StrOr(meta, "recordType", "ticket")
      pipelineId == StrOr(meta, "pipelineId", "")
      stageId == StrOr(meta, "stageId", "")
      under == [recordType |-> recordType, pipelineId |-> pipelineId, stageId |-> stageId]
      opts == ToOptions(HubspotSearch(recordType, pipelineId, stageId))
  IN IF pipelineId = "" THEN Answer("record", << option("Select a pipeline first", "SELECT_PIPELINE_FIRST") >>, under)
     ELSE IF stageId = "" THEN Answer("record", << option("Select a stage first", "SELECT_STAGE_FIRST") >>, under)
     ELSE IF ~hubspotOk
     THEN Answer("record", << option("ERROR loading records (check Render logs)", "ERROR_RECORDS") >>, under)
     ELSE IF Len(opts) = 0
     THEN Answer("record", << option("No records match that search", "NO_RECORDS") >>, under)
     ELSE Answer("record", opts, under)

\* app.view("hubnote_modal_submit_v2"): the values read from view.state.values
Overwrite_SubmitRead(v) ==
  [recordType |-> IF v.state.recordType # "" THEN v.state.recordType ELSE "ticket",
   pipelineId |-> v.state.pipeline,
   stageId |-> v.state.stage,
   recordId |-> v.state.record,
   noteTitle |-> v.state.title,
   noteBody |-> v.state.body]

\* app.view("hubnote_modal_submit_v2"): the errors object
Overwrite_SubmitErrors(r) ==
  (IF r.recordType = "" THEN {BlockId("record_type_block_v2", "")} ELSE {})
  \cup (IF r.pipelineId = "" THEN {BlockId("pipeline_block_v2", "")} ELSE {})
  \cup (IF r.stageId = "" THEN {BlockId("stage_block_v2", "")} ELSE {})
  \cup (IF r.recordId = "" THEN {BlockId("record_block_v2", "")} ELSE {})
  \cup (IF Trim(r.noteTitle) = "" THEN {BlockId("note_title_block_v2", "")} ELSE {})
  \cup (IF Trim(r.noteBody) = "" THEN {BlockId("note_body_block_v2", "")} ELSE {})

\* hsCreateNoteAndAssociate({ hubspot_object_type, hubspot_object_id, note_title, note_body })
Overwrite_SubmitPayload(r) ==
  [sent |-> TRUE,
   hubspot_object_type |-> r.recordType, hubspot_object_id |-> r.recordId,
   note_title |-> r.noteTitle, note_body |-> r.noteBody]

---------------------------------------------------------------------------
(* The interactions: what the user does in Slack, and the handlers *)

Event(kind, action_id, value, text, v) ==
  [kind |-> kind, action_id |-> action_id, value |-> value, text |-> text, view |-> v]

ActionIdOf(field) ==
  IF field = "pipeline" THEN "hubnote_v2_pipeline_select"
  ELSE IF field = "stage" THEN "hubnote_v2_stage_select"
  ELSE "hubnote_v2_record_select"

Submitting == \E e \in inbox : e.kind = "submit"

Inflight(kind) == Cardinality({e \in inbox : e.kind = kind})

CanInteract == view.open /\ ~Submitting

CanAct == CanInteract /\ Inflight("action") < MaxActionsInflight

CanAsk == CanInteract /\ Inflight("options") < MaxOptionsInflight

\* a handler ran to its end: the payload is consumed, Slack holds newView
Finish(ev, name, newView, tr) ==
  /\ inbox' = inbox \ {ev}
  /\ view' = newView
  /\ lastHandler' = <<ev.kind, name>>
  /\ trace' = tr
  /\ lastAnswer' = NoAnswer
  /\ UNCHANGED <<sessionVars, cacheVars>>
  /\ dropdown' = IF dropdown.field \in SelectFields
                    /\ (~newView.open \/ newView.blocks[dropdown.field] # view.blocks[dropdown.field])
                 THEN NoDropdown ELSE dropdown

\* client.views.update({ view_id, hash, view: doc }) at the end of an action handler
UpdateView(ev, name, doc) ==
  \E ok \in BOOLEAN :
    IF ok /\ SlackUpdateAccepted(view, ev.view.hash)
    THEN Finish(ev, name, SlackViewsUpdate(view, doc), <<"ack", "slack:views.update">>)
    ELSE Finish(ev, name, view, <<"ack", "slack:views.update:error", "log">>)

\* the user acted: no handler has run since
UserActed ==
  /\ lastHandler' = <<"user", "">> /\ trace' = << >> /\ lastAnswer' = NoAnswer
  /\ UNCHANGED <<variant, apiVars, relay, modals, sessionVars, cacheVars>>

\* the user picks Ticket or Deal in the static select (dispatch_action)
UserSelectRecordType(v) ==
  /\ CanAct /\ view.hash < MaxUpdates
  /\ LET nv == [view EXCEPT !.state.recordType = v]
     IN /\ view' = nv
        /\ inbox' = inbox \cup {Event("action", "hubnote_v2_record_type_select", v, v, nv)}
  /\ dropdown' = NoDropdown /\ UserActed

\* the user opens an external select: Slack sends a block_suggestion with the view
UserOpenDropdown(field, q) ==
  /\ CanAsk
  /\ inbox' = inbox \cup {Event("options", ActionIdOf(field), q, "", view)}
  /\ dropdown' = NoDropdown
  /\ UNCHANGED view /\ UserActed

\* the entries that tell the user to try again
RetryValues == {"ERROR_PIPELINES", "ERROR_STAGES", "ERROR_RECORDS",
                "__error__", "__timeout__", "__loading__"}

\* the user picks an option of the list that is shown (never a try-again entry)
UserSelectOption(i) ==
  /\ CanInteract
  /\ dropdown.field \in SelectFields
  /\ i \in 1..Len(dropdown.options)
  /\ dropdown.options[i].value \notin RetryValues
  /\ dropdown.field # "record" => CanAct /\ view.hash < MaxUpdates
  /\ LET f == dropdown.field
         o == dropdown.options[i]
         nv == [view EXCEPT !.state[f] = o.value]
     IN /\ view' = nv
        /\ inbox' = IF f = "record" THEN inbox
                    ELSE inbox \cup {Event("action", ActionIdOf(f), o.value, o.text, nv)}
  /\ dropdown' = NoDropdown
  /\ UserActed

\* the user types the note title, then the note body
UserType(field) ==
  /\ view.open /\ inbox = {}
  /\ view.state[field] = ""
  /\ field = "body" => view.state.title # ""
  /\ view' = [view EXCEPT !.state[field] = IF field = "title" THEN "Call recap" ELSE "Spoke to the client"]
  /\ dropdown' = NoDropdown
  /\ UNCHANGED inbox /\ UserActed

\* the user presses Create
UserSubmit ==
  /\ CanInteract /\ inbox = {}
  /\ inbox' = inbox \cup {Event("submit", "hubnote_modal_submit_v2", "", "", view)}
  /\ dropdown' = NoDropdown
  /\ UNCHANGED view /\ UserActed

\* const ZAPIER_HUBNOTE_WEBHOOK_URL = process.env.ZAPIER_HUBNOTE_WEBHOOK_URL || ""
ZAPIER_HUBNOTE_WEBHOOK_URL == env.ZAPIER_HUBNOTE_WEBHOOK_URL

\* hubspotRequest: if (!HUBSPOT_PRIVATE_APP_TOKEN) throw new Error("Missing ..."), so
\* without the token no call succeeds and no list is ever cached
HubspotOutcomes == IF env.HUBSPOT_PRIVATE_APP_TOKEN = "" THEN {FALSE} ELSE BOOLEAN

HardCodedWebhook == "https://hooks.zapier.com/hooks/catch/25767132/ug29zll/"

\* const ZAPIER_WEBHOOK_URL = process.env.ZAPIER_WEBHOOK_URL || <hard-coded hook>; the
\* first snapshot of part_002 falls back to ""
ZAPIER_WEBHOOK_URL ==
  IF env.ZAPIER_WEBHOOK_URL # "" THEN env.ZAPIER_WEBHOOK_URL
  ELSE IF variant = "nonces" THEN "" ELSE HardCodedWebhook

\* first snapshot of part_002: const zapUrl = ZAPIER_HUBNOTE_TRIGGER_URL || ZAPIER_WEBHOOK_URL
Nonces_zapUrl ==
  IF ZAPIER_HUBNOTE_WEBHOOK_URL # "" THEN ZAPIER_HUBNOTE_WEBHOOK_URL ELSE ZAPIER_WEBHOOK_URL

SUBMIT == "hubnote_modal_submit_v2"

\* the calls to the automation relay made by a handler run
RelayCalls(tr) == {i \in 1..Len(tr) : tr[i] \in {"zapier:post", "zapier:post:error"}}

\* the modal state: the parents kept in private_metadata, and the record - kept in
\* private_metadata by the snapshot that has a recordId there, else held by the record select
ModalState(v) ==
  LET meta == parsePrivateMetadata(v.private_metadata)
  IN [recordType |-> StrOr(meta, "recordType", ""), pipelineId |-> StrOr(meta, "pipelineId", ""),
      stageId |-> StrOr(meta, "stageId", ""),
      recordId |-> IF "recordId" \in DOMAIN meta THEN meta.recordId ELSE v.state.record]

\* an options handler answered: Slack shows the list if the select still exists
Answered(ev, name, ans, tr) ==
  /\ inbox' = inbox \ {ev}
  /\ lastHandler' = <<ev.kind, name>>
  /\ trace' = tr
  /\ dropdown' = IF view.open /\ view.blocks[ans.field] = ev.view.blocks[ans.field]
                 THEN [field |-> ans.field, options |-> ans.options] ELSE NoDropdown
  /\ lastAnswer' = [field |-> ans.field, options |-> ans.options, under |-> ans.under,
                    persisted |-> MetaCtx(parsePrivateMetadata(view.private_metadata)),
                    stored |-> StrOr(parsePrivateMetadata(ev.view.private_metadata),
                                     "recordType", ""),
                    waited |-> IF "waited" \in DOMAIN ans THEN ans.waited ELSE 0,
                    term |-> ev.value,
                    raw |-> RawOf(ev.view.private_metadata)]
  /\ UNCHANGED <<variant, apiVars, view, relay, modals, sessionVars, cacheVars>>

---------------------------------------------------------------------------
(* src/index.js: the handlers *)

\* app.command("/hubnote")
Index_HubnoteCommand ==
  /\ variant = "index" /\ ~view.open /\ inbox = {} /\ modals < MaxModals
  /\ modals' = modals + 1
  /\ \E ok \in BOOLEAN :
       IF ok
       THEN /\ view' = SlackViewsOpen(Index_buildHubnoteModalV2(CorrelationId, OriginChannel, OriginUser,
                                        [recordType |-> "ticket", depsNonce |-> "0"]), "")
            /\ trace' = <<"ack", "slack:views.open">>
       ELSE /\ view' = NoView
            /\ trace' = <<"ack", "slack:views.open:error", "log", "slack:chat.postMessage">>
  /\ lastHandler' = <<"command", "/hubnote">>
  /\ dropdown' = NoDropdown /\ relay' = NoRelay /\ lastAnswer' = NoAnswer
  /\ UNCHANGED <<variant, apiVars, inbox, sessionVars, cacheVars>>

\* app.action("hubnote_v2_record_type_select")
Index_RecordTypeAction(ev) ==
  /\ variant = "index" /\ ev.kind = "action" /\ ev.action_id = "hubnote_v2_record_type_select"
  /\ IF ev.value = ""
     THEN Finish(ev, ev.action_id, view, <<"ack">>)
     ELSE UpdateView(ev, ev.action_id, Index_RecordTypeRebuilt(ev))
  /\ UNCHANGED <<variant, apiVars, relay, modals>>

\* app.action("hubnote_v2_pipeline_select")
Index_PipelineAction(ev) ==
  /\ variant = "index" /\ ev.kind = "action" /\ ev.action_id = "hubnote_v2_pipeline_select"
  /\ IF ev.value = ""
     THEN Finish(ev, ev.action_id, view, <<"ack">>)
     ELSE UpdateView(ev, ev.action_id, Index_PipelineRebuilt(ev))
  /\ UNCHANGED <<variant, apiVars, relay, modals>>

\* app.action("hubnote_v2_stage_select")
Index_StageAction(ev) ==
  /\ variant = "index" /\ ev.kind = "action" /\ ev.action_id = "hubnote_v2_stage_select"
  /\ IF ev.value = ""
     THEN Finish(ev, ev.action_id, view, <<"ack">>)
     ELSE UpdateView(ev, ev.action_id, Index_StageRebuilt(ev))
  /\ UNCHANGED <<variant, apiVars, relay, modals>>

\* app.options(...) for the three external selects
Index_Options(ev) ==
  /\ variant = "index" /\ ev.kind = "options"
  /\ \E hubspotOk \in HubspotOutcomes, ms \in SearchMs :
       LET md == ev.view.private_metadata
           pipelineId == StrOr(parsePrivateMetadata(md), "pipelineId", "")
           stageId == StrOr(parsePrivateMetadata(md), "stageId", "")
           failed == IF hubspotOk THEN <<"ack:options">> ELSE <<"log", "ack:options">>
       IN IF ev.action_id = "hubnote_v2_pipeline_select"
          THEN /\ Answered(ev, ev.action_id, Index_PipelineOptions(md, ev.value, hubspotOk),
                          <<"hubspot:pipelines">> \o failed)
          ELSE IF ev.action_id = "hubnote_v2_stage_select"
          THEN /\ Answered(ev, ev.action_id, Index_StageOptions(md, ev.value, hubspotOk),
                          IF pipelineId = "" THEN <<"ack:options">>
                          ELSE <<"hubspot:pipelines">> \o failed)
          ELSE /\ Answered(ev, ev.action_id,
                          AwaitSearch(Index_RecordOptions(md, ev.value, hubspotOk), ms),
                          IF pipelineId = "" \/ stageId = "" THEN <<"ack:options">>
                          ELSE <<"hubspot:search">> \o failed)


\* app.view("hubnote_modal_submit_v2")
Index_Submit(ev) ==
  /\ variant = "index" /\ ev.kind = "submit"
  /\ LET r == Index_SubmitRead(ev.view)
     IN IF Index_SubmitErrors(r) # {}
        THEN /\ Finish(ev, ev.action_id, view, <<"ack:errors">>)
             /\ relay' = relay
        ELSE IF r.stageId = "" \/ r.recordId = ""
        THEN /\ \E slackOk \in BOOLEAN :
                  Finish(ev, ev.action_id, NoView,
                         IF slackOk THEN <<"ack", "slack:chat.postEphemeral">>
                         ELSE <<"ack", "slack:chat.postEphemeral:error">>)
             /\ relay' = relay
        ELSE IF ZAPIER_HUBNOTE_WEBHOOK_URL = ""
        THEN /\ Finish(ev, ev.action_id, NoView,
                       <<"ack", "slack:chat.postMessage", "text:ZAPIER_HUBNOTE_WEBHOOK_URL is missing">>)
             /\ relay' = relay
        ELSE \E zapOk, slackOk, slackOk2 \in BOOLEAN :
               LET failure == IF slackOk2 THEN <<"log", "slack:chat.postEphemeral">>
                              ELSE <<"log", "slack:chat.postEphemeral:error", "throw">>
               IN IF zapOk
                  THEN /\ Finish(ev, ev.action_id, NoView,
                                 IF slackOk THEN <<"ack", "zapier:post", "slack:chat.postEphemeral">>
                                 ELSE <<"ack", "zapier:post", "slack:chat.postEphemeral:error">>
                                        \o failure)
                       /\ relay' = Index_SubmitPayload(ev.view, r)
                  ELSE /\ Finish(ev, ev.action_id, NoView,
                                 <<"ack", "zapier:post:error">> \o failure)
                       /\ relay' = relay
  /\ UNCHANGED <<variant, apiVars, modals>>

---------------------------------------------------------------------------
(* src/unnamed/part_002, first snapshot: the handlers *)

\* app.command("/hubnote")
Nonces_HubnoteCommand ==
  /\ variant = "nonces" /\ ~view.open /\ inbox = {} /\ modals < MaxModals
  /\ modals' = modals + 1
  /\ \E ok \in BOOLEAN :
       IF ok
       THEN /\ view' = SlackViewsOpen(Nonces_buildHubnoteModalV2(
                           [correlationId |-> CorrelationId, originChannelId |-> OriginChannel,
                            originUserId |-> OriginUser, recordType |-> "ticket",
                            pipelineId |-> "", stageId |-> "", noncePipeline |-> 0,
                            nonceStage |-> 0, nonceRecord |-> 0, noteTitleInitial |-> "",
                            noteBodyInitial |-> ""]), "ticket")
            /\ trace' = <<"ack", "hubspot:pipelines:background", "slack:views.open">>
       ELSE /\ view' = NoView
            /\ trace' = <<"ack", "hubspot:pipelines:background", "slack:views.open:error", "log",
                          "slack:chat.postEphemeral">>
  /\ lastHandler' = <<"command", "/hubnote">>
  /\ dropdown' = NoDropdown /\ relay' = NoRelay /\ lastAnswer' = NoAnswer
  /\ UNCHANGED <<variant, apiVars, inbox, sessionVars, cacheVars>>

\* app.action("hubnote_v2_record_type_select")
Nonces_RecordTypeAction(ev) ==
  /\ variant = "nonces" /\ ev.kind = "action" /\ ev.action_id = "hubnote_v2_record_type_select"
  /\ UpdateView(ev, ev.action_id, Nonces_RecordTypeRebuilt(ev))
  /\ UNCHANGED <<variant, apiVars, relay, modals>>

\* app.action("hubnote_v2_pipeline_select")
Nonces_PipelineAction(ev) ==
  /\ variant = "nonces" /\ ev.kind = "action" /\ ev.action_id = "hubnote_v2_pipeline_select"
  /\ UpdateView(ev, ev.action_id, Nonces_PipelineRebuilt(ev))
  /\ UNCHANGED <<variant, apiVars, relay, modals>>

\* app.action("hubnote_v2_stage_select")
Nonces_StageAction(ev) ==
  /\ variant = "nonces" /\ ev.kind = "action" /\ ev.action_id = "hubnote_v2_stage_select"
  /\ UpdateView(ev, ev.action_id, Nonces_StageRebuilt(ev))
  /\ UNCHANGED <<variant, apiVars, relay, modals>>

\* app.options(...) for the three external selects
Nonces_Options(ev) ==
  /\ variant = "nonces" /\ ev.kind = "options"
  /\ LET md == ev.view.private_metadata
         pipelineId == StrOr(parsePrivateMetadata(md), "pipelineId", "")
         stageId == StrOr(parsePrivateMetadata(md), "stageId", "")
     IN IF ev.action_id = "hubnote_v2_pipeline_select"
        THEN \E cached \in HubspotOutcomes :
               Answered(ev, ev.action_id, Nonces_PipelineOptions(md, ev.value, cached),
                        IF cached THEN <<"ack:options">>
                        ELSE <<"hubspot:pipelines:background", "ack:options">>)
        ELSE IF ev.action_id = "hubnote_v2_stage_select"
        THEN \E cached \in HubspotOutcomes :
               Answered(ev, ev.action_id, Nonces_StageOptions(md, ev.value, cached),
                        IF cached \/ pipelineId \in {"", "__loading__"} THEN <<"ack:options">>
                        ELSE <<"hubspot:pipelines:background", "ack:options">>)
        ELSE \E ms \in SearchMs, hubspotOk \in HubspotOutcomes :
               LET outcome == RaceSearch(ms, hubspotOk)
               IN
               Answered(ev, ev.action_id,
                        AwaitSearch(Nonces_RecordOptions(md, ev.value, outcome),
                                    IF outcome = "timeout" THEN RaceMs ELSE ms),
                        IF pipelineId \in {"", "__loading__"} \/ stageId \in {"", "__loading__"}
                        THEN <<"ack:options">>
                        ELSE IF outcome = "error" THEN <<"hubspot:search:error", "log", "ack:options">>
                        ELSE <<"hubspot:search", "ack:options">>)

\* app.view("hubnote_modal_submit_v2"): acknowledged first, so the modal closes
Nonces_Submit(ev) ==
  /\ variant = "nonces" /\ ev.kind = "submit"
  /\ LET r == Nonces_SubmitRead(ev.view)
     IN IF Nonces_SubmitErrors(r) # {}
        THEN /\ \E slackOk \in BOOLEAN :
                  Finish(ev, ev.action_id, NoView,
                         IF slackOk
                         THEN <<"ack", "slack:views.update", "slack:chat.postEphemeral">>
                         ELSE <<"ack", "slack:views.update:error",
                                "slack:chat.postEphemeral:error">>)
             /\ relay' = relay
        ELSE IF Nonces_zapUrl = ""
        THEN /\ Finish(ev, ev.action_id, NoView,
                       <<"ack", "slack:chat.postEphemeral",
                         "text:Missing ZAPIER_HUBNOTE_TRIGGER_URL (or ZAPIER_WEBHOOK_URL)">>)
             /\ relay' = relay
        ELSE \E zapOk, slackOk, slackOk2 \in BOOLEAN :
               LET failure == IF slackOk2 THEN <<"log", "slack:chat.postEphemeral">>
                              ELSE <<"log", "slack:chat.postEphemeral:error">>
               IN IF zapOk
                  THEN /\ Finish(ev, ev.action_id, NoView,
                                 IF slackOk THEN <<"ack", "zapier:post", "slack:chat.postEphemeral">>
                                 ELSE <<"ack", "zapier:post", "slack:chat.postEphemeral:error">>
                                        \o failure)
                       /\ relay' = Nonces_SubmitPayload(ev.view, r)
                  ELSE /\ Finish(ev, ev.action_id, NoView,
                                 <<"ack", "zapier:post:error">> \o failure)
                       /\ relay' = relay
  /\ UNCHANGED <<variant, apiVars, modals>>

---------------------------------------------------------------------------
(* src/unnamed/part_002, second snapshot: the handlers *)

\* app.command("/hubnote")
Overwrite_HubnoteCommand ==
  /\ variant = "overwrite" /\ ~view.open /\ inbox = {} /\ modals < MaxModals
  /\ modals' = modals + 1
  /\ \E ok \in BOOLEAN :
       IF ok
       THEN /\ view' = SlackViewsOpen(Overwrite_buildHubnoteModalV2(CorrelationId, OriginChannel,
                                                                    OriginUser), "")
            /\ trace' = <<"ack", "slack:views.open">>
       ELSE /\ view' = NoView
            /\ trace' = <<"ack", "slack:views.open:error", "log", "slack:chat.postEphemeral">>
  /\ lastHandler' = <<"command", "/hubnote">>
  /\ dropdown' = NoDropdown /\ relay' = NoRelay /\ lastAnswer' = NoAnswer
  /\ UNCHANGED <<variant, apiVars, inbox, sessionVars, cacheVars>>

\* app.action("hubnote_v2_record_type_select")
Overwrite_RecordTypeAction(ev) ==
  /\ variant = "overwrite" /\ ev.kind = "action" /\ ev.action_id = "hubnote_v2_record_type_select"
  /\ UpdateView(ev, ev.action_id, Overwrite_RecordTypeRebuilt(ev))
  /\ UNCHANGED <<variant, apiVars, relay, modals>>

\* app.action("hubnote_v2_pipeline_select")
Overwrite_PipelineAction(ev) ==
  /\ variant = "overwrite" /\ ev.kind = "action" /\ ev.action_id = "hubnote_v2_pipeline_select"
  /\ UpdateView(ev, ev.action_id, Overwrite_PipelineRebuilt(ev))
  /\ UNCHANGED <<variant, apiVars, relay, modals>>

\* app.action("hubnote_v2_stage_select")
Overwrite_StageAction(ev) ==
  /\ variant = "overwrite" /\ ev.kind = "action" /\ ev.action_id = "hubnote_v2_stage_select"
  /\ UpdateView(ev, ev.action_id, Overwrite_StageRebuilt(ev))
  /\ UNCHANGED <<variant, apiVars, relay, modals>>

\* app.options(...) for the three external selects
Overwrite_Options(ev) ==
  /\ variant = "overwrite" /\ ev.kind = "options"
  /\ \E hubspotOk \in HubspotOutcomes, ms \in SearchMs :
       LET md == ev.view.private_metadata
           pipelineId == StrOr(parsePrivateMetadata(md), "pipelineId", "")
           stageId == StrOr(parsePrivateMetadata(md), "stageId", "")
           failed == IF hubspotOk THEN <<"ack:options">> ELSE <<"log", "ack:options">>
       IN IF ev.action_id = "hubnote_v2_pipeline_select"
          THEN Answered(ev, ev.action_id, Overwrite_PipelineOptions(md, ev.value, hubspotOk),
                        <<"hubspot:pipelines">> \o failed)
          ELSE IF ev.action_id = "hubnote_v2_stage_select"
          THEN Answered(ev, ev.action_id, Overwrite_StageOptions(md, ev.value, hubspotOk),
                        IF pipelineId = "" THEN <<"ack:options">>
                        ELSE <<"hubspot:pipelines">> \o failed)
          ELSE Answered(ev, ev.action_id,
                        AwaitSearch(Overwrite_RecordOptions(md, ev.value, hubspotOk), ms),
                        IF pipelineId = "" \/ stageId = "" THEN <<"ack:options">>
                        ELSE <<"hubspot:search">> \o failed)

\* app.view("hubnote_modal_submit_v2"): creates the note in HubSpot directly
Overwrite_Submit(ev) ==
  /\ variant = "overwrite" /\ ev.kind = "submit"
  /\ LET r == Overwrite_SubmitRead(ev.view)
     IN IF Overwrite_SubmitErrors(r) # {}
        THEN /\ Finish(ev, ev.action_id, view, <<"ack:errors">>)
             /\ relay' = relay
        ELSE \E hubspotOk \in HubspotOutcomes, postOk \in BOOLEAN :
               IF ~hubspotOk
               THEN /\ Finish(ev, ev.action_id, view,
                              <<"hubspot:createNote:error", "log", "ack:errors">>)
                    /\ relay' = relay
               ELSE IF postOk
               THEN /\ Finish(ev, ev.action_id, NoView,
                              <<"hubspot:createNote", "ack:clear", "slack:chat.postMessage">>)
                    /\ relay' = Overwrite_SubmitPayload(r)
               ELSE /\ Finish(ev, ev.action_id, NoView,
                              <<"hubspot:createNote", "ack:clear", "slack:chat.postMessage:error",
                                "log", "ack:errors">>)
                    /\ relay' = Overwrite_SubmitPayload(r)
  /\ UNCHANGED <<variant, apiVars, modals>>

---------------------------------------------------------------------------
(* The session store and the Zapier callback *)

\* process.env as the process may be started: every setting is optional for start-up
Envs ==
  [ZAPIER_HUBNOTE_SECRET : {"", "s3cret"},
   ZAPIER_HUBNOTE_WEBHOOK_URL : {"", "https://hooks.zapier.test/hubnote"},
   ZAPIER_WEBHOOK_URL : {"", "https://hooks.zapier.test/cstask"},
   HUBSPOT_PRIVATE_APP_TOKEN : {"", "pat-1"},
   MONDAY_API_TOKEN : {"", "monday-1"}]

\* the configuration of a complete deployment that does not protect its endpoints
DeployedEnv ==
  [ZAPIER_HUBNOTE_SECRET |-> "", ZAPIER_HUBNOTE_WEBHOOK_URL |-> "https://hooks.zapier.test/hubnote",
   ZAPIER_WEBHOOK_URL |-> "https://hooks.zapier.test/cstask",
   HUBSPOT_PRIVATE_APP_TOKEN |-> "pat-1", MONDAY_API_TOKEN |-> "monday-1"]

\* req.headers["x-zapier-secret"]; "" stands for a request without the header
Headers == {"", "s3cret", "wrong"}

\* a faulty gate: a request without the header passes
Unauthorized_MissingHeaderPasses(expected, incoming) ==
  expected # "" /\ incoming # "" /\ incoming # expected

\* if (ZAPIER_HUBNOTE_SECRET) { if (!incoming || incoming !== ZAPIER_HUBNOTE_SECRET) 401 }
Unauthorized(expected, incoming) ==
  expected # "" /\ (incoming = "" \/ incoming # expected)

\* requireZapierSecret(req, res, expectedSecret): true when the request may proceed
requireZapierSecret(expected, got) ==
  IF expected = "" THEN TRUE ELSE got = expected

HUBNOTE_SESSION_TTL_MS == 15 * 60 * 1000

\* the clock advances in steps of five minutes
TickMs == 5 * 60 * 1000

NoReply == [op |-> "none"]

SessionIds == 1..MaxCallbacks

\* Map.prototype.set
MapSet(m, k, v) == [x \in DOMAIN m \cup {k} |-> IF x = k THEN v ELSE m[x]]

\* Map.prototype.delete
MapDelete(m, k) == [x \in DOMAIN m \ {k} |-> m[x]]

\* hubnoteSetSession(sessionId, data)
hubnoteSetSession(sessions, sessionId, data, t) ==
  MapSet(sessions, sessionId,
         Spread(data, [sessionId |-> sessionId, expiresAt |-> t + HUBNOTE_SESSION_TTL_MS]))

\* a faulty lookup: the session is gone already at its expiry time
hubnoteGetSession_GoneAtExpiry(sessions, sessionId, t) ==
  IF sessionId \notin DOMAIN sessions THEN [found |-> FALSE, store |-> sessions]
  ELSE IF t >= sessions[sessionId].expiresAt
  THEN [found |-> FALSE, store |-> MapDelete(sessions, sessionId)]
  ELSE [found |-> TRUE, session |-> sessions[sessionId], store |-> sessions]

\* hubnoteGetSession(sessionId): the value returned and the store left behind
hubnoteGetSession(sessions, sessionId, t) ==
  IF sessionId \notin DOMAIN sessions THEN [found |-> FALSE, store |-> sessions]
  ELSE IF t > sessions[sessionId].expiresAt
  THEN [found |-> FALSE, store |-> MapDelete(sessions, sessionId)]
  ELSE [found |-> TRUE, session |-> sessions[sessionId], store |-> sessions]

\* the body of POST /zapier/hubnote/callback
CallbackBodies ==
  [status : {"success", "error"}, correlation_id : {CorrelationId},
   hubspot_note_id : {"", "n1"}, hubspot_object_type : {"ticket"}, hubspot_object_id : {"r1"},
   origin_channel_id : {"", OriginChannel}, origin_user_id : {OriginUser}]

\* the sessions whose attachment request was relayed and confirmed to the user so far
Attached == IF "attached" \in DOMAIN reply THEN reply.attached ELSE {}

\* a callback was served: the HTTP status and the message posted to Slack, if any
Served(incoming, body, http, posted) ==
  /\ served' = served + 1
  /\ reply' = [op |-> "callback", n |-> served + 1, incoming |-> incoming, body |-> body,
               http |-> http, posted |-> posted, attached |-> Attached]
  /\ UNCHANGED <<variant, apiVars, now, modalVars, cacheVars>>

NothingPosted == [kind |-> "none"]

FailurePosted(body) ==
  [kind |-> "failure", channel |-> body.origin_channel_id, user |-> body.origin_user_id]

PromptPosted(body, sessionId) ==
  [kind |-> "add_files_prompt", channel |-> body.origin_channel_id, user |-> body.origin_user_id,
   sessionId |-> sessionId]

\* src/index.js: receiver.app.post("/zapier/hubnote/callback")
Index_Callback(body, slackOk) ==
  /\ variant = "index" /\ served < MaxCallbacks
  /\ \E incoming \in Headers :
     IF Unauthorized(env.ZAPIER_HUBNOTE_SECRET, incoming)
     THEN /\ Served(incoming, body, 401, NothingPosted)
          /\ UNCHANGED <<hubnoteSessions, createdAt, calledBack>>
     ELSE IF body.origin_channel_id = "" \/ body.origin_user_id = ""
     THEN /\ Served(incoming, body, 400, NothingPosted)
          /\ UNCHANGED <<hubnoteSessions, createdAt, calledBack>>
     ELSE IF body.status # "success" \/ body.hubspot_note_id = ""
     THEN /\ IF slackOk THEN Served(incoming, body, 200, FailurePosted(body))
             ELSE Served(incoming, body, 500, NothingPosted)
          /\ UNCHANGED <<hubnoteSessions, createdAt, calledBack>>
     ELSE LET sessionId == served + 1
          IN /\ hubnoteSessions' =
                  hubnoteSetSession(hubnoteSessions, sessionId,
                    [correlationId |-> body.correlation_id,
                     hubspotNoteId |-> body.hubspot_note_id,
                     hubspotObjectType |-> IF body.hubspot_object_type # ""
                                           THEN body.hubspot_object_type ELSE "ticket",
                     hubspotObjectId |-> body.hubspot_object_id,
                     originChannelId |-> body.origin_channel_id,
                     originUserId |-> body.origin_user_id,
                     dmChannelId |-> ""], now)
             /\ createdAt' = MapSet(createdAt, sessionId, now)
             /\ calledBack' = MapSet(calledBack, sessionId, now)
             /\ IF slackOk THEN Served(incoming, body, 200, PromptPosted(body, sessionId))
                ELSE Served(incoming, body, 500, NothingPosted)

\* src/unnamed/part_002, first snapshot: receiver.app.post("/zapier/hubnote/callback")
Nonces_Callback(body, slackOk) ==
  /\ variant = "nonces" /\ served < MaxCallbacks
  /\ \E incoming \in Headers :
     IF ~requireZapierSecret(env.ZAPIER_HUBNOTE_SECRET, incoming)
     THEN /\ Served(incoming, body, 401, NothingPosted)
          /\ UNCHANGED <<hubnoteSessions, createdAt, calledBack>>
     ELSE IF body.origin_channel_id = "" \/ body.origin_user_id = ""
     THEN /\ Served(incoming, body, 400, NothingPosted)
          /\ UNCHANGED <<hubnoteSessions, createdAt, calledBack>>
     ELSE LET sessionId == served + 1
          IN /\ hubnoteSessions' =
                  MapSet(hubnoteSessions, sessionId,
                    [correlation_id |-> body.correlation_id,
                     hubspot_note_id |-> body.hubspot_note_id,
                     hubspot_object_type |-> body.hubspot_object_type,
                     hubspot_object_id |-> body.hubspot_object_id,
                     channelId |-> body.origin_channel_id,
                     userId |-> body.origin_user_id])
             /\ createdAt' = MapSet(createdAt, sessionId, now)
             /\ calledBack' = MapSet(calledBack, sessionId, now)
             /\ IF slackOk THEN Served(incoming, body, 200, PromptPosted(body, sessionId))
                ELSE Served(incoming, body, 500, NothingPosted)

ZAPIER_HUBNOTE_ATTACH_WEBHOOK_URL == "https://hooks.zapier.test/hubnote-attach"

DmChannel == "D1"

\* what a handler of the attach flow did for a session id: whether it found the session,
\* the message it delivered, whether it opened a modal, whether it called the attach relay,
\* and whether it ended with an exception nothing caught (slackOk: Slack accepts the
\* calls of this run)
Interacted(op, handler, sessionId, slackOk, found, posted, opened, relayed, failed) ==
  /\ reply' = [op |-> op, handler |-> handler, sessionId |-> sessionId, at |-> now,
               slack |-> slackOk, found |-> found, posted |-> posted, opened |-> opened,
               relayed |-> relayed, failed |-> failed,
               attached |-> Attached \cup (IF relayed /\ posted = "attach_sent" THEN {sessionId}
                                           ELSE {})]
  /\ UNCHANGED <<variant, apiVars, now, served, modalVars, cacheVars>>

\* src/index.js: app.action("hubnote_open_attach_modal")
Index_Lookup(sessionId, slackOk) ==
  /\ variant = "index"
  /\ LET got == hubnoteGetSession(hubnoteSessions, sessionId, now)
     IN /\ hubnoteSessions' = got.store
        /\ Interacted("lookup", "hubnote_open_attach_modal", sessionId, slackOk, got.found, "none",
                      got.found /\ slackOk, FALSE, FALSE)
  /\ UNCHANGED <<createdAt, calledBack>>

\* src/index.js: app.action("hubnote_add_files_yes")
Index_AddFilesYes(sessionId, slackOk, dmOk) ==
  /\ variant = "index"
  /\ LET got == hubnoteGetSession(hubnoteSessions, sessionId, now)
     IN IF ~got.found
        THEN /\ hubnoteSessions' = got.store
             /\ Interacted("lookup", "hubnote_add_files_yes", sessionId, slackOk, FALSE,
                           IF slackOk THEN "session_expired_rerun" ELSE "none",
                           FALSE, FALSE, FALSE)
             /\ UNCHANGED <<createdAt, calledBack>>
        ELSE IF ~slackOk
        THEN /\ hubnoteSessions' = got.store
             /\ Interacted("lookup", "hubnote_add_files_yes", sessionId, slackOk, TRUE, "none",
                           FALSE, FALSE, FALSE)
             /\ UNCHANGED <<createdAt, calledBack>>
        ELSE IF ~dmOk
        THEN /\ hubnoteSessions' = got.store
             /\ Interacted("lookup", "hubnote_add_files_yes", sessionId, slackOk, TRUE, "dm_failed",
                           FALSE, FALSE, FALSE)
             /\ UNCHANGED <<createdAt, calledBack>>
        ELSE /\ hubnoteSessions' =
                  hubnoteSetSession(got.store, sessionId,
                                    Spread(got.session, [dmChannelId |-> DmChannel]), now)
             /\ createdAt' = MapSet(createdAt, sessionId, now)
             /\ UNCHANGED calledBack
             /\ Interacted("lookup", "hubnote_add_files_yes", sessionId, slackOk, TRUE, "dm_prompt",
                           FALSE, FALSE, FALSE)

\* src/index.js: app.action("hubnote_add_files_no")
Index_AddFilesNo(sessionId, slackOk) ==
  /\ variant = "index"
  /\ hubnoteSessions' = MapDelete(hubnoteSessions, sessionId)
  /\ Interacted("decline", "hubnote_add_files_no", sessionId, slackOk,
                sessionId \in DOMAIN hubnoteSessions,
                IF slackOk THEN "declined_confirmation" ELSE "none", FALSE, FALSE, FALSE)
  /\ UNCHANGED <<createdAt, calledBack>>

\* src/index.js: app.options("hubnote_files_select"); the option list is the answer
Index_FilesOptions(sessionId, slackOk) ==
  /\ variant = "index"
  /\ LET got == hubnoteGetSession(hubnoteSessions, sessionId, now)
     IN /\ hubnoteSessions' = got.store
        /\ Interacted("lookup", "hubnote_files_select", sessionId, slackOk, got.found,
                      IF ~got.found THEN "session_expired_rerun"
                      ELSE IF slackOk THEN "files" ELSE "error_loading_files",
                      FALSE, FALSE, FALSE)
  /\ UNCHANGED <<createdAt, calledBack>>

\* src/index.js: app.view("hubnote_attach_modal_submit")
Index_AttachSubmit(sessionId, filesSelected, zapOk, slackOk) ==
  /\ variant = "index"
  /\ LET got == hubnoteGetSession(hubnoteSessions, sessionId, now)
     IN /\ hubnoteSessions' = got.store
        /\ IF ~got.found
           THEN Interacted("lookup", "hubnote_attach_modal_submit", sessionId, slackOk, FALSE, "none",
                           FALSE, FALSE, FALSE)
           ELSE IF ~filesSelected
           THEN Interacted("lookup", "hubnote_attach_modal_submit", sessionId, slackOk, TRUE,
                           "errors:files_select_block", FALSE, FALSE, FALSE)
           ELSE IF ZAPIER_HUBNOTE_ATTACH_WEBHOOK_URL = ""
           THEN Interacted("lookup", "hubnote_attach_modal_submit", sessionId, slackOk, TRUE,
                           IF slackOk THEN "attach_url_missing" ELSE "none", FALSE, FALSE,
                           ~slackOk)
           ELSE IF zapOk
           THEN Interacted("lookup", "hubnote_attach_modal_submit", sessionId, slackOk, TRUE,
                           IF slackOk THEN "attach_sent" ELSE "none", FALSE, TRUE, ~slackOk)
           ELSE Interacted("lookup", "hubnote_attach_modal_submit", sessionId, slackOk, TRUE,
                           IF slackOk THEN "attach_failed" ELSE "none", FALSE, TRUE, ~slackOk)
  /\ UNCHANGED <<createdAt, calledBack>>

\* src/unnamed/part_002, first snapshot: app.action("hubnote_add_files_yes")
Nonces_Lookup(sessionId, slackOk) ==
  /\ variant = "nonces"
  /\ LET found == sessionId \in DOMAIN hubnoteSessions
     IN Interacted("lookup", "hubnote_add_files_yes", sessionId, slackOk, found, "none",
                   found /\ slackOk, FALSE, found /\ ~slackOk)
  /\ UNCHANGED <<hubnoteSessions, createdAt, calledBack>>

\* src/unnamed/part_002, first snapshot: app.action("hubnote_add_files_no")
Nonces_AddFilesNo(sessionId, slackOk) ==
  /\ variant = "nonces"
  /\ LET found == sessionId \in DOMAIN hubnoteSessions
     IN /\ hubnoteSessions' = IF found /\ slackOk THEN MapDelete(hubnoteSessions, sessionId)
                              ELSE hubnoteSessions
        /\ Interacted("decline", "hubnote_add_files_no", sessionId, slackOk, found,
                      IF found /\ slackOk THEN "declined_confirmation" ELSE "none",
                      FALSE, FALSE, found /\ ~slackOk)
  /\ UNCHANGED <<createdAt, calledBack>>

\* src/unnamed/part_002, first snapshot: app.view("hubnote_attach_files_submit")
Nonces_AttachSubmit(sessionId, slackOk) ==
  /\ variant = "nonces"
  /\ LET found == sessionId \in DOMAIN hubnoteSessions
     IN /\ hubnoteSessions' = IF found /\ slackOk THEN MapDelete(hubnoteSessions, sessionId)
                              ELSE hubnoteSessions
        /\ Interacted("lookup", "hubnote_attach_files_submit", sessionId, slackOk, found,
                      IF found /\ slackOk THEN "files_received" ELSE "none",
                      FALSE, FALSE, found /\ ~slackOk)
  /\ UNCHANGED <<createdAt, calledBack>>

\* time passes
Tick ==
  /\ now < MaxTicks * TickMs
  /\ now' = now + TickMs
  /\ UNCHANGED <<variant, apiVars, hubnoteSessions, served, reply, createdAt, calledBack, modalVars, cacheVars>>

SessionStoreInit ==
  /\ hubnoteSessions = EmptyObj
  /\ now = 0
  /\ served = 0
  /\ reply = NoReply
  /\ createdAt = EmptyObj
  /\ calledBack = EmptyObj

\* Zapier calls back for a submission once the relay call has gone out to it - also when
\* the answer to that call never reached the app (timeout of 10 s, 5xx)
RelayCalled == lastHandler = <<"submit", SUBMIT>> /\ RelayCalls(trace) # {}

Index_CallbackAfterRelay(body, slackOk) == RelayCalled /\ Index_Callback(body, slackOk)

Nonces_CallbackAfterRelay(body, slackOk) == RelayCalled /\ Nonces_Callback(body, slackOk)

---------------------------------------------------------------------------
(* POST /api/hubnote/create: the endpoint Zapier calls to create the note in HubSpot *)

MaxRequests == 2

HS_ASSOC_CACHE_MS == 60 * 60 * 1000

\* req.body of POST /api/hubnote/create
CreateBodies ==
  [correlation_id : {CorrelationId}, hubspot_object_type : {"ticket", "deal"},
   hubspot_object_id : {"", "r1"}, note_title : {"Call recap"}, note_body : {"Spoke to the client"},
   origin_channel_id : {OriginChannel}, origin_user_id : {OriginUser}]

\* how HubSpot answers the calls of one request: POST notes, GET labels, PUT association
HubspotAnswers == [create : BOOLEAN, labels : BOOLEAN, associate : BOOLEAN]

NoResponse == [op |-> "none", n |-> 0]

\* no /cstask modal is open
NoTask == [open |-> FALSE, opened |-> FALSE, boardId |-> "", board |-> "", group |-> "",
           groupUnder |-> ""]

ApiInit ==
  /\ notes = {}
  /\ task = NoTask
  /\ hsAssocCache = [t \in RecordTypes |-> [at |-> 0, associationTypeId |-> 0]]
  /\ response = NoResponse

\* the endpoint answered: the HTTP status, the HubSpot calls made, what HubSpot and the
\* association cache hold afterwards
Responded(incoming, body, r) ==
  /\ response.n < MaxRequests
  /\ response' = [op |-> "create", n |-> response.n + 1, incoming |-> incoming, body |-> body,
                  status |-> r.status, calls |-> r.calls]
  /\ notes' = r.notes
  /\ hsAssocCache' = r.cache
  /\ UNCHANGED <<variant, env, task, modalVars, sessionVars, cacheVars>>

\* an answer that touched nothing
Refused(status) == [status |-> status, calls |-> << >>, notes |-> notes, cache |-> hsAssocCache]

Note(recordId, associated) ==
  [id |-> Cardinality(notes) + 1, to |-> recordId, associated |-> associated]

\* the association type id is served from the cache
AssocCached(recordType) ==
  /\ hsAssocCache[recordType].associationTypeId # 0
  /\ now - hsAssocCache[recordType].at < HS_ASSOC_CACHE_MS

AssocFilled(recordType) ==
  [hsAssocCache EXCEPT ![recordType] = [at |-> now, associationTypeId |-> 1]]

\* src/index.js: the body of the try block once the request is complete: create the note,
\* then look the association type up, then associate
Index_CreateThenAssociate(recordType, recordId, hs) ==
  LET lookup == IF AssocCached(recordType) THEN << >> ELSE <<"GET labels">>
      assoc == IF AssocCached(recordType) THEN hsAssocCache ELSE AssocFilled(recordType)
  IN IF env.HUBSPOT_PRIVATE_APP_TOKEN = "" THEN Refused(500)
     ELSE IF ~hs.create
     THEN [status |-> 500, calls |-> <<"POST notes">>, notes |-> notes, cache |-> hsAssocCache]
     ELSE IF ~AssocCached(recordType) /\ ~hs.labels
     THEN [status |-> 500, calls |-> <<"POST notes", "GET labels">>,
           notes |-> notes \cup {Note(recordId, FALSE)}, cache |-> hsAssocCache]
     ELSE IF ~hs.associate
     THEN [status |-> 500, calls |-> <<"POST notes">> \o lookup \o <<"PUT association">>,
           notes |-> notes \cup {Note(recordId, FALSE)}, cache |-> assoc]
     ELSE [status |-> 200, calls |-> <<"POST notes">> \o lookup \o <<"PUT association">>,
           notes |-> notes \cup {Note(recordId, TRUE)}, cache |-> assoc]

\* src/index.js: receiver.app.post("/api/hubnote/create")
Index_Create(incoming, body, hs) ==
  /\ variant = "index"
  /\ LET recordType == IF body.hubspot_object_type = "deal" THEN "deal" ELSE "ticket"
         missing == {k \in {"hubspot_object_type", "hubspot_object_id", "origin_channel_id",
                            "origin_user_id", "note_title", "note_body"} : body[k] = ""}
     IN Responded(incoming, body,
          IF Unauthorized(env.ZAPIER_HUBNOTE_SECRET, incoming) THEN Refused(401)
          ELSE IF missing # {} THEN Refused(400)
          ELSE Index_CreateThenAssociate(recordType, body.hubspot_object_id, hs))

\* src/unnamed/part_002: hsCreateNoteAndAssociate: look the association type up, then
\* create the note together with its association in one call
hsCreateNoteAndAssociate(recordType, recordId, hs) ==
  LET lookup == IF AssocCached(recordType) THEN << >> ELSE <<"GET labels">>
      assoc == IF AssocCached(recordType) THEN hsAssocCache ELSE AssocFilled(recordType)
  IN IF env.HUBSPOT_PRIVATE_APP_TOKEN = "" THEN Refused(500)
     ELSE IF ~AssocCached(recordType) /\ ~hs.labels
     THEN [status |-> 500, calls |-> <<"GET labels">>, notes |-> notes, cache |-> hsAssocCache]
     ELSE IF ~hs.create
     THEN [status |-> 500, calls |-> lookup \o <<"POST notes">>, notes |-> notes, cache |-> assoc]
     ELSE [status |-> 200, calls |-> lookup \o <<"POST notes">>,
           notes |-> notes \cup {Note(recordId, TRUE)}, cache |-> assoc]

\* src/unnamed/part_002, first snapshot: receiver.app.post("/api/hubnote/create")
Nonces_Create(incoming, body, hs) ==
  /\ variant = "nonces"
  /\ LET recordType == IF body.hubspot_object_type = "deal" THEN "deal" ELSE "ticket"
     IN Responded(incoming, body,
          IF ~requireZapierSecret(env.ZAPIER_HUBNOTE_SECRET, incoming) THEN Refused(401)
          ELSE IF body.correlation_id = "" \/ body.hubspot_object_type = ""
                  \/ body.hubspot_object_id = ""
          THEN Refused(400)
          ELSE hsCreateNoteAndAssociate(recordType, body.hubspot_object_id, hs))

\* src/unnamed/part_002, second snapshot: receiver.app.post("/api/hubnote/create")
Overwrite_Create(incoming, body, hs) ==
  /\ variant = "overwrite"
  /\ LET recordType == IF body.hubspot_object_type = "deal" THEN "deal" ELSE "ticket"
     IN Responded(incoming, body,
          IF Unauthorized(env.ZAPIER_HUBNOTE_SECRET, incoming) THEN Refused(401)
          ELSE IF body.hubspot_object_id = "" \/ body.origin_channel_id = ""
                  \/ body.origin_user_id = ""
          THEN Refused(400)
          ELSE hsCreateNoteAndAssociate(recordType, body.hubspot_object_id, hs))

---------------------------------------------------------------------------
(* The list caches: boards and groups of monday.com, pipelines of HubSpot *)

CACHE_MS == 60 * 1000

HS_CACHE_MS == 10 * 60 * 1000

MaxFetches == 3

BoardIds == {"b1", "b2"}

\* what the search box of an external select can hold
SearchTerms == {"", "s"}

\* data.boards of the monday.com API, as it may answer at different times
MondayBoards ==
  { << >>, << [id |-> "b1", label |-> "Alpha"], [id |-> "b2", label |-> "Sales"] >> }

\* the ids of the boards of an account with more than a hundred boards
ManyBoardIds ==
  <<"1001", "1002", "1003", "1004", "1005", "1006", "1007", "1008", "1009", "1010", "1011", "1012", "1013", "1014", "1015", "1016", "1017", "1018", "1019", "1020", "1021", "1022", "1023", "1024", "1025", "1026", "1027", "1028", "1029", "1030", "1031", "1032", "1033", "1034", "1035", "1036", "1037", "1038", "1039", "1040", "1041", "1042", "1043", "1044", "1045", "1046", "1047", "1048", "1049", "1050", "1051", "1052", "1053", "1054", "1055", "1056", "1057", "1058", "1059", "1060", "1061", "1062", "1063", "1064", "1065", "1066", "1067", "1068", "1069", "1070", "1071", "1072", "1073", "1074", "1075", "1076", "1077", "1078", "1079", "1080", "1081", "1082", "1083", "1084", "1085", "1086", "1087", "1088", "1089", "1090", "1091", "1092", "1093", "1094", "1095", "1096", "1097", "1098", "1099", "1100", "1101">>

ManyBoards == [i \in 1..Len(ManyBoardIds) |-> [id |-> ManyBoardIds[i], label |-> "Sales"]]

\* data.boards[0].groups of the monday.com API
MondayGroups(boardId) ==
  IF boardId = "b1"
  THEN { << >>, << [id |-> "g1", label |-> "Todo"], [id |-> "g2", label |-> "Sales"] >> }
  ELSE { << >>, << [id |-> "g3", label |-> "Done"] >> }

\* In a cache entry `at` is the timestamp the code stores; `issued` records the time the
\* adapter call that produced the entry was issued, and `pending` holds the adapter calls
\* that have been issued and have not yet completed.

\* data.results of GET /crm/v3/pipelines/..., as HubSpot may answer at different times
HubspotPipelineLists(recordType) ==
  { << >>, HubspotPipelines(recordType) }

\* the time that goes by between two fetches: less than CACHE_MS, CACHE_MS, HS_CACHE_MS
Gaps == {30 * 1000, CACHE_MS, HS_CACHE_MS}

NoFetch ==
  [n |-> 0, fn |-> "none", key |-> "", search |-> "", invoked |-> FALSE, ok |-> TRUE,
   result |-> << >>, items |-> << >>, options |-> << >>, idle |-> FALSE]

CacheInit ==
  /\ cache = [boards |-> [at |-> 0, issued |-> 0, options |-> << >>],
              groupsByBoard |-> EmptyObj, pipelines |-> EmptyObj, pending |-> {}]
  /\ fetched = NoFetch
  /\ filled = EmptyObj

\* what the options handler that made the fetch acknowledges with
Acked(fn, ok, result) ==
  IF fn = "fetchBoards"
  THEN (IF ~ok THEN << option("ERROR loading boards (check Render logs)", "ERROR_LOADING_BOARDS") >>
        ELSE IF Len(result) = 0 THEN << option("No boards found", "NO_BOARDS_FOUND") >>
        ELSE result)
  ELSE IF fn = "fetchGroups"
  THEN (IF ~ok THEN << option("ERROR loading groups (check Render logs)", "ERROR_LOADING_GROUPS") >>
        ELSE IF Len(result) = 0
        THEN << option("No groups found for this board", "NO_GROUPS_FOUND") >>
        ELSE result)
  ELSE (IF ~ok THEN << option("ERROR loading pipelines", "ERROR_PIPELINES") >>
        ELSE IF Len(result) = 0 THEN << option("No pipelines found", "NO_PIPELINES") >>
        ELSE result)

\* a list fetch ended: served from the cache, or answered by the adapter, or thrown
Fetched(fn, key, search, hit, ok, result, entry) ==
  /\ fetched.n < MaxFetches
  /\ (IF fn = "hsGetPipelines" THEN env.HUBSPOT_PRIVATE_APP_TOKEN ELSE env.MONDAY_API_TOKEN) = ""
       => ~ok
  /\ fetched' = [n |-> fetched.n + 1, fn |-> fn, key |-> key, search |-> search,
                 invoked |-> ~hit, ok |-> hit \/ ok,
                 result |-> IF hit THEN entry ELSE IF ok THEN result.options ELSE << >>,
                 items |-> IF ~hit /\ ok THEN result.items ELSE << >>,
                 options |-> Acked(fn, hit \/ ok,
                                   IF hit THEN entry ELSE IF ok THEN result.options ELSE << >>),
                 idle |-> FALSE]
  /\ filled' = IF ~hit /\ ok /\ SearchTerm(search) = << >>
               THEN MapSet(filled, <<fn, key>>, [at |-> now, result |-> result.options])
               ELSE filled
  /\ UNCHANGED <<variant, apiVars, modalVars, sessionVars>>

\* fetchBoards(search)
fetchBoards(search, ok, boards) ==
  LET s == SearchTerm(search)
      hit == s = << >> /\ Len(cache.boards.options) > 0 /\ now - cache.boards.at < CACHE_MS
      options == ToOptions(SelectSeq2(boards, search))
  IN /\ Fetched("fetchBoards", "boards", search, hit, ok,
                [items |-> boards, options |-> options], cache.boards.options)
     /\ cache' = IF ~hit /\ ok /\ s = << >>
                 THEN [cache EXCEPT !.boards = [at |-> now, issued |-> now, options |-> options]]
                 ELSE cache

\* fetchGroups(boardId, search)
fetchGroups(boardId, search, ok, groups) ==
  LET s == SearchTerm(search)
      known == boardId \in DOMAIN cache.groupsByBoard
      cached == cache.groupsByBoard[boardId]
      hit == s = << >> /\ known /\ Len(cached.options) > 0 /\ now - cached.at < CACHE_MS
      options == ToOptions(SelectSeq2(groups, search))
  IN /\ Fetched("fetchGroups", boardId, search, hit, ok,
                [items |-> groups, options |-> options],
                IF known THEN cached.options ELSE << >>)
     /\ cache' = IF ~hit /\ ok /\ s = << >>
                 THEN [cache EXCEPT !.groupsByBoard =
                         MapSet(@, boardId, [at |-> now, issued |-> now, options |-> options])]
                 ELSE cache

\* hsGetPipelines(recordType), called by the pipeline options handler, which filters the
\* list by the search term
hsGetPipelines(recordType, search, ok, pipelines) ==
  LET key == IF recordType = "deal" THEN "deal" ELSE "ticket"
      known == key \in DOMAIN cache.pipelines
      cached == cache.pipelines[key]
      hit == /\ known /\ now - cached.at < HS_CACHE_MS
             /\ variant # "index" => Len(cached.pipelines) > 0
  IN /\ Fetched("hsGetPipelines", key, search, hit, ok,
                [items |-> pipelines, options |-> ToOptions(SelectSeq2(pipelines, search))],
                IF known THEN ToOptions(SelectSeq2(cached.pipelines, search)) ELSE << >>)
     /\ cache' = IF ~hit /\ ok
                 THEN [cache EXCEPT !.pipelines =
                         MapSet(@, key, [at |-> now, issued |-> now, pipelines |-> pipelines])]
                 ELSE cache

\* time goes by between two fetches
Elapse(ms) ==
  /\ fetched.n < MaxFetches /\ ~fetched.idle
  /\ now' = now + ms
  /\ fetched' = [fetched EXCEPT !.idle = TRUE]
  /\ UNCHANGED <<variant, apiVars, hubnoteSessions, served, reply, createdAt, calledBack, modalVars, cache, filled>>

---------------------------------------------------------------------------
(* The specification of the /hubnote modal *)

Variants == {"index", "nonces", "overwrite"}

ModalInit ==
  /\ view = NoView
  /\ dropdown = NoDropdown
  /\ inbox = {}
  /\ lastHandler = <<"none", "">>
  /\ trace = << >>
  /\ relay = NoRelay
  /\ lastAnswer = NoAnswer
  /\ modals = 0

Init ==
  /\ variant \in Variants
  /\ ModalInit
  /\ SessionStoreInit
  /\ CacheInit
  /\ ApiInit
  /\ env = DeployedEnv

Next ==
  \/ \E v \in RecordTypes : UserSelectRecordType(v)
  \/ \E f \in SelectFields, q \in Queries : UserOpenDropdown(f, q)
  \/ \E i \in 1..2 : UserSelectOption(i)
  \/ \E f \in {"title", "body"} : UserType(f)
  \/ UserSubmit
  \/ Index_HubnoteCommand
  \/ \E ev \in inbox : Index_RecordTypeAction(ev)
  \/ \E ev \in inbox : Index_PipelineAction(ev)
  \/ \E ev \in inbox : Index_StageAction(ev)
  \/ \E ev \in inbox : Index_Options(ev)
  \/ \E ev \in inbox : Index_Submit(ev)
  \/ Nonces_HubnoteCommand
  \/ \E ev \in inbox : Nonces_RecordTypeAction(ev)
  \/ \E ev \in inbox : Nonces_PipelineAction(ev)
  \/ \E ev \in inbox : Nonces_StageAction(ev)
  \/ \E ev \in inbox : Nonces_Options(ev)
  \/ \E ev \in inbox : Nonces_Submit(ev)
  \/ Overwrite_HubnoteCommand
  \/ \E ev \in inbox : Overwrite_RecordTypeAction(ev)
  \/ \E ev \in inbox : Overwrite_PipelineAction(ev)
  \/ \E ev \in inbox : Overwrite_StageAction(ev)
  \/ \E ev \in inbox : Overwrite_Options(ev)
  \/ \E ev \in inbox : Overwrite_Submit(ev)
  \/ \E body \in CallbackBodies, slackOk \in BOOLEAN : Index_CallbackAfterRelay(body, slackOk)
  \/ \E body \in CallbackBodies, slackOk \in BOOLEAN : Nonces_CallbackAfterRelay(body, slackOk)

Spec == Init /\ [][Next]_vars

---------------------------------------------------------------------------
(* The specification of the session store and the callback *)

SessionInit ==
  /\ variant \in {"index", "nonces"}
  /\ ModalInit
  /\ SessionStoreInit
  /\ CacheInit
  /\ ApiInit
  /\ env = DeployedEnv

SessionNext ==
  \/ \E body \in CallbackBodies, slackOk \in BOOLEAN : Index_Callback(body, slackOk)
  \/ \E body \in CallbackBodies, slackOk \in BOOLEAN : Nonces_Callback(body, slackOk)
  \/ \E sessionId \in SessionIds, slackOk \in BOOLEAN : Index_Lookup(sessionId, slackOk)
  \/ \E sessionId \in SessionIds, slackOk, dmOk \in BOOLEAN :
       Index_AddFilesYes(sessionId, slackOk, dmOk)
  \/ \E sessionId \in SessionIds, slackOk \in BOOLEAN : Index_AddFilesNo(sessionId, slackOk)
  \/ \E sessionId \in SessionIds, slackOk \in BOOLEAN : Index_FilesOptions(sessionId, slackOk)
  \/ \E sessionId \in SessionIds, filesSelected, zapOk, slackOk \in BOOLEAN :
       Index_AttachSubmit(sessionId, filesSelected, zapOk, slackOk)
  \/ \E sessionId \in SessionIds, slackOk \in BOOLEAN : Nonces_Lookup(sessionId, slackOk)
  \/ \E sessionId \in SessionIds, slackOk \in BOOLEAN : Nonces_AddFilesNo(sessionId, slackOk)
  \/ \E sessionId \in SessionIds, slackOk \in BOOLEAN : Nonces_AttachSubmit(sessionId, slackOk)
  \/ Tick

SpecSession == SessionInit /\ [][SessionNext]_vars

---------------------------------------------------------------------------
(* The specification of the two HTTP endpoints Zapier calls, under any configuration of
   the shared secret and of the HubSpot token *)

ApiInit_AnyEnv ==
  /\ variant \in Variants
  /\ ModalInit
  /\ SessionStoreInit
  /\ CacheInit
  /\ ApiInit
  /\ env \in {e \in Envs : /\ e.ZAPIER_HUBNOTE_WEBHOOK_URL # "" /\ e.ZAPIER_WEBHOOK_URL # ""
                            /\ e.MONDAY_API_TOKEN # ""}

ApiNext ==
  \/ \E incoming \in Headers, body \in CreateBodies, hs \in HubspotAnswers :
       Index_Create(incoming, body, hs)
  \/ \E incoming \in Headers, body \in CreateBodies, hs \in HubspotAnswers :
       Nonces_Create(incoming, body, hs)
  \/ \E incoming \in Headers, body \in CreateBodies, hs \in HubspotAnswers :
       Overwrite_Create(incoming, body, hs)
  \/ \E body \in CallbackBodies, slackOk \in BOOLEAN : Index_Callback(body, slackOk)
  \/ \E body \in CallbackBodies, slackOk \in BOOLEAN : Nonces_Callback(body, slackOk)

SpecApi == ApiInit_AnyEnv /\ [][ApiNext]_vars

---------------------------------------------------------------------------
(* The specification of the options endpoints: a request carries the private_metadata
   of the view it came from, which the handlers decode with parsePrivateMetadata; a
   metadata string that does not parse, or that holds no parent, decodes to the empty
   state *)

\* body.view.private_metadata as an options request can carry it
RequestMetadata ==
  NotJson \cup
  {[wf |-> TRUE, obj |-> [recordType |-> rt, pipelineId |-> p, stageId |-> s]] :
     rt \in RecordTypes \cup {""}, p \in {"", "p1", "p3"}, s \in {"", "s1", "s4"}}

\* Slack posts a block_suggestion payload for one of the external selects
OptionsRequest(field, q, md) ==
  /\ inbox = {}
  /\ inbox' = {Event("options", ActionIdOf(field), q, "",
                     [NoView EXCEPT !.open = TRUE, !.hash = 1, !.private_metadata = md])}
  /\ lastHandler' = <<"user", "options">>
  /\ UNCHANGED <<variant, apiVars, view, dropdown, trace, relay, lastAnswer, modals, sessionVars, cacheVars>>

RequestNext ==
  \/ \E f \in SelectFields, q \in Queries, md \in RequestMetadata : OptionsRequest(f, q, md)
  \/ \E ev \in inbox : Index_Options(ev)
  \/ \E ev \in inbox : Nonces_Options(ev)
  \/ \E ev \in inbox : Overwrite_Options(ev)

SpecRequest == Init /\ [][RequestNext]_vars

---------------------------------------------------------------------------
(* The specification of the list caches *)

CacheNext ==
  \/ \E search \in SearchTerms, ok \in BOOLEAN, boards \in MondayBoards :
       fetchBoards(search, ok, boards)
  \/ \E boardId \in BoardIds, search \in SearchTerms, ok \in BOOLEAN :
       \E groups \in MondayGroups(boardId) : fetchGroups(boardId, search, ok, groups)
  \/ \E recordType \in RecordTypes, search \in SearchTerms, ok \in BOOLEAN :
       \E pipelines \in HubspotPipelineLists(recordType) :
         hsGetPipelines(recordType, search, ok, pipelines)
  \/ \E ms \in Gaps : Elapse(ms)

SpecCache == Init /\ [][CacheNext]_vars

---------------------------------------------------------------------------
(* The specification of the option lists: the requests for pipelines and stages, and the
   requests for boards and groups of the /cstask modal *)

\* no /hubnote request has been made
NoRequestYet == inbox = {} /\ lastHandler = <<"none", "">>

ListsNext ==
  \/ \E f \in {"pipeline", "stage"}, q \in {"", " S ", "zz"}, md \in RequestMetadata :
       fetched.n = 0 /\ OptionsRequest(f, q, md)
  \/ \E ev \in inbox : Index_Options(ev)
  \/ \E ev \in inbox : Nonces_Options(ev)
  \/ \E ev \in inbox : Overwrite_Options(ev)
  \/ \E search \in {"", " S ", "zz"}, ok \in BOOLEAN, boards \in MondayBoards \cup {ManyBoards} :
       NoRequestYet /\ fetchBoards(search, ok, boards)
  \/ \E boardId \in BoardIds, search \in {"", " S ", "zz"}, ok \in BOOLEAN :
       \E groups \in MondayGroups(boardId) :
         NoRequestYet /\ fetchGroups(boardId, search, ok, groups)

SpecLists == Init /\ [][ListsNext]_vars

---------------------------------------------------------------------------
(* The specification of the handlers that need a setting - a webhook URL, an API token -
   under any configuration of these settings *)

\* view.state.values and private_metadata of a submitted /cstask modal
CstaskForms ==
  [taskName : {"", "Fix login"}, ownerSlackUserId : {"U2"}, boardId : {"b1"}, groupId : {"g1"},
   statusLabel : {"Not Started"}, priorityLabel : {"High"}]

\* the JSON posted to ZAPIER_WEBHOOK_URL
CstaskPayload(form, url) ==
  [sent |-> TRUE, url |-> url, command_name |-> "cstask", task_name |-> form.taskName,
   task_owner_slack_user_id |-> form.ownerSlackUserId, monday_board_id |-> form.boardId,
   monday_group_id |-> form.groupId, status_label |-> form.statusLabel,
   priority_label |-> form.priorityLabel]

\* the end of a run of app.view("cstask_modal_submit")
CstaskDone(tr, posted) ==
  /\ inbox = {}
  /\ lastHandler' = <<"submit", "cstask_modal_submit">>
  /\ trace' = tr
  /\ relay' = posted
  /\ lastAnswer' = NoAnswer /\ dropdown' = NoDropdown
  /\ UNCHANGED <<variant, env, notes, hsAssocCache, response, view, inbox, modals, sessionVars, cacheVars>>

\* app.view("cstask_modal_submit"), the same in the three snapshots
CstaskSubmit(form, emailOk, zapOk, slackOk) ==
  LET post == IF slackOk THEN <<"slack:chat.postMessage">>
              ELSE <<"slack:chat.postMessage:error", "throw">>
  IN IF \E k \in DOMAIN form : form[k] = ""
     THEN CstaskDone(<<"ack:errors">>, relay)
     ELSE IF ~emailOk
     THEN CstaskDone(<<"ack", "slack:users.info:error", "log">> \o post, relay)
     ELSE IF ZAPIER_WEBHOOK_URL = ""
     THEN CstaskDone(<<"ack", "slack:users.info">> \o post
                       \o <<"text:ZAPIER_WEBHOOK_URL is missing">>, relay)
     ELSE IF zapOk
     THEN CstaskDone(<<"ack", "slack:users.info", "zapier:post">> \o post,
                     CstaskPayload(form, ZAPIER_WEBHOOK_URL))
     ELSE CstaskDone(<<"ack", "slack:users.info", "zapier:post:error", "log">> \o post, relay)

\* the view of a submitted /hubnote modal: every field filled, or the title left empty
SubmittedViews ==
  {[NoView EXCEPT
      !.open = TRUE, !.hash = 1,
      !.private_metadata =
         [wf |-> TRUE,
          obj |-> [correlationId |-> CorrelationId, originChannelId |-> OriginChannel,
                   originUserId |-> OriginUser, recordType |-> "ticket", pipelineId |-> "p1",
                   stageId |-> "s1", recordId |-> "r1"]],
      !.state = [recordType |-> "ticket", pipeline |-> "p1", stage |-> "s1", record |-> "r1",
                 title |-> title, body |-> "Spoke to the client"]] : title \in {"", "Call recap"}}

\* Slack posts a view_submission payload for the /hubnote modal
SubmitRequest(v) ==
  /\ inbox = {} /\ fetched.n = 0
  /\ inbox' = {Event("submit", SUBMIT, "", "", v)}
  /\ lastHandler' = <<"user", "submit">>
  /\ UNCHANGED <<variant, apiVars, view, dropdown, trace, relay, lastAnswer, modals, sessionVars, cacheVars>>

\* the metadata of an options request whose parents are stored
StoredParents ==
  {md \in RequestMetadata : md.wf /\ md.obj.recordType = "ticket" /\ md.obj.pipelineId = "p1"
                              /\ md.obj.stageId = "s1"}

ConfigInit ==
  /\ variant \in Variants
  /\ ModalInit
  /\ SessionStoreInit
  /\ CacheInit
  /\ ApiInit
  /\ env \in {e \in Envs : e.ZAPIER_HUBNOTE_SECRET = ""}

ConfigNext ==
  \/ \E f \in SelectFields, md \in StoredParents : fetched.n = 0 /\ OptionsRequest(f, "", md)
  \/ \E ev \in inbox : Index_Options(ev)
  \/ \E ev \in inbox : Nonces_Options(ev)
  \/ \E ev \in inbox : Overwrite_Options(ev)
  \/ \E v \in SubmittedViews : SubmitRequest(v)
  \/ \E ev \in inbox : Index_Submit(ev)
  \/ \E ev \in inbox : Nonces_Submit(ev)
  \/ \E ev \in inbox : Overwrite_Submit(ev)
  \/ \E form \in CstaskForms, emailOk, zapOk, slackOk \in BOOLEAN :
       fetched.n = 0 /\ CstaskSubmit(form, emailOk, zapOk, slackOk) /\ UNCHANGED task
  \/ \E search \in SearchTerms, ok \in BOOLEAN, boards \in MondayBoards :
       NoRequestYet /\ fetchBoards(search, ok, boards)
  \/ \E boardId \in BoardIds, search \in SearchTerms, ok \in BOOLEAN :
       \E groups \in MondayGroups(boardId) :
         NoRequestYet /\ fetchGroups(boardId, search, ok, groups)

SpecConfig == ConfigInit /\ [][ConfigNext]_vars

---------------------------------------------------------------------------
(* The specification of the /cstask modal: the board is stored in private_metadata by the
   board_select handler, the group is held by the group select of the view *)

\* a handler of the /cstask modal ran
TaskHandled(kind, name, tr) ==
  /\ lastHandler' = <<kind, name>> /\ trace' = tr
  /\ UNCHANGED <<variant, env, notes, hsAssocCache, response, view, dropdown, inbox, relay,
                 lastAnswer, modals, sessionVars, cacheVars>>

\* app.command("/cstask"): views.open with private_metadata JSON.stringify({})
CstaskCommand(ok) ==
  /\ ~task.opened /\ inbox = {}
  /\ task' = IF ok THEN [NoTask EXCEPT !.open = TRUE, !.opened = TRUE]
             ELSE [NoTask EXCEPT !.opened = TRUE]
  /\ TaskHandled("command", "/cstask",
                 IF ok THEN <<"ack", "slack:views.open">>
                 ELSE <<"ack", "slack:views.open:error", "log", "slack:chat.postMessage">>)

\* app.action("board_select"): meta.boardId = selectedBoardId, views.update with the blocks
\* of the view as they are; Slack keeps what the group select holds
BoardSelect(selectedBoardId, ok) ==
  /\ task.open /\ inbox = {} /\ selectedBoardId # task.board
  /\ task' = [task EXCEPT !.board = selectedBoardId,
                          !.boardId = IF ok THEN selectedBoardId ELSE @]
  /\ TaskHandled("action", "board_select",
                 IF ok THEN <<"ack", "slack:views.update">>
                 ELSE <<"ack", "slack:views.update:error", "log">>)

\* app.options("group_select"): the groups of the board stored in private_metadata
GroupOptions(search, ok, groups) ==
  /\ task.open /\ inbox = {}
  /\ IF task.boardId = ""
     THEN /\ fetched.n < MaxFetches
          /\ fetched' = [NoFetch EXCEPT !.n = fetched.n + 1, !.fn = "group_select",
                            !.search = search,
                            !.options = << option("Select a board first", "SELECT_BOARD_FIRST") >>]
          /\ UNCHANGED <<variant, apiVars, modalVars, sessionVars, cache, filled>>
     ELSE fetchGroups(task.boardId, search, ok, groups)

\* the user picks an option of the list just served for the stored board; the group block
\* dispatches no action
GroupPick(i) ==
  /\ task.open /\ inbox = {}
  /\ fetched.fn \in {"fetchGroups", "group_select"} /\ fetched.key = task.boardId
  /\ i \in 1..Len(fetched.options)
  /\ task' = [task EXCEPT !.group = fetched.options[i].value, !.groupUnder = task.boardId]
  /\ TaskHandled("user", "group_select", << >>)

\* the user submits the modal: app.view("cstask_modal_submit") reads the board from
\* private_metadata and the group from view.state.values
TaskSubmit(taskName, emailOk, zapOk, slackOk) ==
  LET form == [taskName |-> taskName, ownerSlackUserId |-> "U2", boardId |-> task.boardId,
               groupId |-> task.group, statusLabel |-> "Not Started", priorityLabel |-> "High"]
  IN /\ task.open
     /\ CstaskSubmit(form, emailOk, zapOk, slackOk)
     /\ task' = IF \E k \in DOMAIN form : form[k] = "" THEN task ELSE [task EXCEPT !.open = FALSE]

TaskNext ==
  \/ \E ok \in BOOLEAN : CstaskCommand(ok)
  \/ \E b \in BoardIds, ok \in BOOLEAN : BoardSelect(b, ok)
  \/ \E search \in SearchTerms, ok \in BOOLEAN, groups \in MondayGroups(task.boardId) : GroupOptions(search, ok, groups)
  \/ \E i \in 1..2 : GroupPick(i)
  \/ \E taskName \in {"", "Fix login"}, emailOk, zapOk, slackOk \in BOOLEAN : TaskSubmit(taskName, emailOk, zapOk, slackOk)

SpecTask == Init /\ [][TaskNext]_vars

---------------------------------------------------------------------------
(* The list caches under overlapping fetches and direct reads. A fetch takes
   `now` before it awaits the adapter, so several calls for one key may be in
   flight and complete in any order. *)

MaxPending == 2

\* the keys overlapping fetches are made for
FetchKeys == {<<"fetchBoards", "boards">>, <<"hsGetPipelines", "ticket">>}

\* the test a fetch with an empty search term makes before it calls the adapter
Hit(fn, key) ==
  IF fn = "fetchBoards"
  THEN Len(cache.boards.options) > 0 /\ now - cache.boards.at < CACHE_MS
  ELSE /\ key \in DOMAIN cache.pipelines /\ now - cache.pipelines[key].at < HS_CACHE_MS
       /\ variant # "index" => Len(cache.pipelines[key].pipelines) > 0

\* the timestamp a completed call stores: `now` as taken on entry, before the await
StampOf(p) == p.at

\* fetchBoards("") or hsGetPipelines(recordType) up to the await of the adapter call
IssueFetch(fn, key) ==
  /\ fetched.n < MaxFetches /\ Cardinality(cache.pending) < MaxPending
  /\ ~Hit(fn, key)
  /\ cache' = [cache EXCEPT !.pending = @ \cup {[fn |-> fn, key |-> key, at |-> now]}]
  /\ fetched' = [NoFetch EXCEPT !.n = fetched.n + 1, !.fn = fn, !.key = key, !.invoked = TRUE]
  /\ UNCHANGED <<variant, apiVars, modalVars, sessionVars, filled>>

\* the adapter call answers and the fetch goes on after the await; a thrown call stores nothing
CompleteFetch(p, ok, items) ==
  /\ p \in cache.pending
  /\ cache' =
       LET c == [cache EXCEPT !.pending = @ \ {p}]
       IN IF ~ok THEN c
          ELSE IF p.fn = "fetchBoards"
          THEN [c EXCEPT !.boards = [at |-> StampOf(p), issued |-> p.at,
                                     options |-> ToOptions(items)]]
          ELSE [c EXCEPT !.pipelines =
                  MapSet(@, p.key, [at |-> StampOf(p), issued |-> p.at, pipelines |-> items])]
  /\ fetched' = [fetched EXCEPT !.idle = FALSE]
  /\ UNCHANGED <<variant, apiVars, modalVars, sessionVars, filled>>

\* app.options("hubnote_v2_pipeline_select") of the snapshot with nonces: the handler reads
\* hsCache.pipelines itself; an unknown or empty list starts hsGetPipelines without awaiting it
Nonces_CachedPipelineOptions(recordType, search) ==
  LET known == recordType \in DOMAIN cache.pipelines
      cached == IF known THEN cache.pipelines[recordType].pipelines ELSE << >>
      matched == ToOptions(SelectSeq2(cached, search))
      key == IF recordType = "deal" THEN "deal" ELSE "ticket"
  IN /\ variant = "nonces"
     /\ fetched.n < MaxFetches
     /\ Len(cached) = 0 => Cardinality(cache.pending) < MaxPending
     /\ cache' = IF Len(cached) = 0
                 THEN [cache EXCEPT !.pending = @ \cup {[fn |-> "hsGetPipelines", key |-> key,
                                                         at |-> now]}]
                 ELSE cache
     /\ fetched' = [n |-> fetched.n + 1, fn |-> "hsGetPipelines", key |-> recordType,
                    search |-> search, invoked |-> Len(cached) = 0, ok |-> TRUE,
                    result |-> matched, items |-> << >>,
                    options |-> IF Len(cached) = 0
                                THEN << option("Loading pipelines... try again", "__loading__") >>
                                ELSE IF Len(matched) = 0
                                THEN << option("No results", "__none__") >>
                                ELSE matched,
                    idle |-> FALSE]
     /\ UNCHANGED <<variant, apiVars, modalVars, sessionVars, filled>>

FreshNext ==
  \/ \E k \in FetchKeys : IssueFetch(k[1], k[2])
  \/ \E p \in cache.pending, ok \in BOOLEAN :
       \E items \in (IF p.fn = "fetchBoards" THEN MondayBoards ELSE HubspotPipelineLists(p.key)) :
         CompleteFetch(p, ok, items)
  \/ \E ok \in BOOLEAN, boards \in MondayBoards : fetchBoards("", ok, boards)
  \/ \E ok \in BOOLEAN, pipelines \in HubspotPipelineLists("ticket") :
       hsGetPipelines("ticket", "", ok, pipelines)
  \/ \E search \in SearchTerms : Nonces_CachedPipelineOptions("ticket", search)
  \/ \E ms \in Gaps : Elapse(ms)

SpecFresh == Init /\ [][FreshNext]_vars

---------------------------------------------------------------------------
(* Properties of the dependent selection *)

RECORD_TYPE_SELECT == "hubnote_v2_record_type_select"
PIPELINE_SELECT == "hubnote_v2_pipeline_select"
STAGE_SELECT == "hubnote_v2_stage_select"

\* the handler of block action `id` consumed ev in this step and its views.update was applied
Applied(ev, id) ==
  /\ ev \in inbox /\ ev \notin inbox'
  /\ ev.kind = "action" /\ ev.action_id = id
  /\ trace' = <<"ack", "slack:views.update">>

PrefixValid(st) ==
  /\ st.stageId # "" => st.pipelineId # ""
  /\ st.recordId # "" => st.stageId # "" /\ st.pipelineId # ""

\* C1: after every record-type, pipeline or stage event the state of the open modal is
\* prefix-valid: a stored stageId implies a stored pipelineId, and a selected record
\* implies a stored stageId and a stored pipelineId.
C1_PrefixValidAfterEveryEvent ==
  view.open /\ lastHandler[1] = "action" => PrefixValid(ModalState(view))

\* the ids HubSpot knows, as opposed to the placeholder entries of the option lists
StageIdsOf(recordType, pipelineId) ==
  LET stages == StagesOf(HubspotPipelines(recordType), pipelineId)
  IN {stages[i].id : i \in 1..Len(stages)}

RecordIdsOf(recordType, pipelineId, stageId) ==
  LET records == HubspotSearch(recordType, pipelineId, stageId)
  IN {records[i].id : i \in 1..Len(records)}

AllRecordIds ==
  UNION {RecordIdsOf(t, p, g) : t \in RecordTypes, p \in {"p1", "p2", "p3"},
                                g \in {"s1", "s2", "s3", "s4"}}

RelayedPipeline ==
  IF "hubspot_pipeline_id" \in DOMAIN relay THEN relay.hubspot_pipeline_id
  ELSE IF "pipeline_id" \in DOMAIN relay THEN relay.pipeline_id ELSE ""

RelayedStage ==
  IF "hubspot_stage_id" \in DOMAIN relay THEN relay.hubspot_stage_id
  ELSE IF "stage_id" \in DOMAIN relay THEN relay.stage_id ELSE ""

\* the stages under which HubSpot lists a record
StagesListing(recordId) ==
  {g \in {"s1", "s2", "s3", "s4"} :
     \E t \in RecordTypes, p \in {"p1", "p2", "p3"} : recordId \in RecordIdsOf(t, p, g)}

\* C2: a selected record is kept only while the stage it was chosen under is unchanged,
\* so a record that is relayed together with a stage is a record HubSpot lists under
\* that stage.
C2_RelayedRecordBelongsToRelayedStage ==
  relay.sent /\ relay.hubspot_object_id \in AllRecordIds /\ RelayedStage # ""
    => RelayedStage \in StagesListing(relay.hubspot_object_id)

\* index.js: the record chosen under stage s1 is still selected after the change to s2
C2_Witness ==
  /\ variant = "index" /\ view.open
  /\ lastHandler = <<"action", STAGE_SELECT>> /\ trace = <<"ack", "slack:views.update">>
  /\ ModalState(view) = [recordType |-> "ticket", pipelineId |-> "p1", stageId |-> "s2",
                         recordId |-> "r1"]

\* C3: a stage or record option request answered after the stored record type or
\* pipeline has changed returns no id listed under the superseded parents.
C3_NoOptionsFromSupersededParent ==
  /\ view.open
  /\ lastAnswer.field \in {"stage", "record"}
  /\ \/ lastAnswer.under.recordType # lastAnswer.persisted.recordType
     \/ lastAnswer.under.pipelineId # lastAnswer.persisted.pipelineId
  => OptionValues(lastAnswer.options)
       \cap (StageIdsOf(lastAnswer.under.recordType, lastAnswer.under.pipelineId) \cup AllRecordIds)
       = {}

Acks == {"ack", "ack:errors", "ack:clear"}

\* C4: every command, block-action and view-submission handler acknowledges before it
\* makes any call to Slack, HubSpot or Zapier.
C4_AckBeforeAnyExternalCall ==
  lastHandler[1] \in {"command", "action", "submit"}
    => trace # << >> /\ Head(trace) \in Acks

C7_StageChangeRequiresPipeline ==
  [][\A ev \in inbox :
       Applied(ev, STAGE_SELECT)
         => IF ModalState(ev.view).pipelineId # ""
            THEN ModalState(view').stageId = ev.value /\ ModalState(view').recordId = ""
            ELSE ModalState(view').stageId = ModalState(view).stageId]_vars

\* the nonce embedded in the block_id of a dependent select (none: -1)
NonceOf(v, field) ==
  IF v.blocks[field][2] \in Range(Digits) THEN Number(v.blocks[field][2]) ELSE -1

Downstream(id) ==
  IF id = RECORD_TYPE_SELECT THEN {"pipeline", "stage", "record"}
  ELSE IF id = PIPELINE_SELECT THEN {"stage", "record"}
  ELSE {"record"}

\* C8: no step decreases the nonce of a dependent select of the open modal, and every
\* applied upstream change strictly increases the nonce in the block_id of each of its
\* downstream selects.
C8_NoncesIncreaseOnUpstreamChange ==
  [][/\ view.open /\ view'.open
          => \A f \in SelectFields : NonceOf(view', f) >= NonceOf(view, f)
     /\ \A ev \in inbox, id \in {RECORD_TYPE_SELECT, PIPELINE_SELECT, STAGE_SELECT} :
          Applied(ev, id)
            => \A f \in Downstream(id) : NonceOf(view', f) > NonceOf(view, f)]_vars

---------------------------------------------------------------------------
(* Properties of the session store and the callback *)

\* this step served a callback
CallbackStep == reply'.op = "callback" /\ reply' # reply

\* this step looked a session up
LookupStep == reply'.op = "lookup" /\ reply' # reply

SessionNoteId(session) ==
  IF "hubspotNoteId" \in DOMAIN session THEN session.hubspotNoteId ELSE session.hubspot_note_id

SessionEntity(session) ==
  IF "hubspotObjectId" \in DOMAIN session
  THEN <<session.hubspotObjectType, session.hubspotObjectId>>
  ELSE <<session.hubspot_object_type, session.hubspot_object_id>>

SessionOrigin(session) ==
  IF "originChannelId" \in DOMAIN session
  THEN <<session.originChannelId, session.originUserId>>
  ELSE <<session.channelId, session.userId>>

\* C9: a callback answered 200 whose body has status "success" and a note id adds exactly
\* one session, bound to the note, the entity and the origin of the body, and posts the
\* add-files prompt carrying that session id; a callback with another status or without
\* a note id adds no session, and when answered 200 it has posted the failure message.
C9_SessionOnlyOnSuccess ==
  [][CallbackStep =>
       LET body == reply'.body
       IN IF body.status = "success" /\ body.hubspot_note_id # ""
          THEN reply'.http = 200 =>
                 \E id \in SessionIds \ DOMAIN hubnoteSessions :
                   /\ DOMAIN hubnoteSessions' = DOMAIN hubnoteSessions \cup {id}
                   /\ \A other \in DOMAIN hubnoteSessions :
                        hubnoteSessions'[other] = hubnoteSessions[other]
                   /\ SessionNoteId(hubnoteSessions'[id]) = body.hubspot_note_id
                   /\ SessionEntity(hubnoteSessions'[id])
                        = <<body.hubspot_object_type, body.hubspot_object_id>>
                   /\ SessionOrigin(hubnoteSessions'[id])
                        = <<body.origin_channel_id, body.origin_user_id>>
                   /\ reply'.posted = PromptPosted(body, id)
          ELSE /\ hubnoteSessions' = hubnoteSessions
               /\ reply'.http = 200 => reply'.posted = FailurePosted(body)]_vars

\* part_002: the callback of a failed note creation left a session and posted the prompt
C9_Witness ==
  /\ variant = "nonces"
  /\ reply.op = "callback" /\ reply.http = 200 /\ reply.body.status = "error"
  /\ reply.posted.kind = "add_files_prompt"
  /\ reply.posted.sessionId \in DOMAIN hubnoteSessions

\* a session is expired once more than the TTL has passed since its creation
Expired(sessionId) ==
  sessionId \in DOMAIN createdAt /\ now > createdAt[sessionId] + HUBNOTE_SESSION_TTL_MS

\* C10: a lookup of a session id that is absent or expired returns none, and leaves no
\* session under that id in the store.
C10_ExpiredOrAbsentReturnsNone ==
  [][LookupStep =>
       LET sessionId == reply'.sessionId
       IN sessionId \notin DOMAIN hubnoteSessions \/ Expired(sessionId)
            => ~reply'.found /\ sessionId \notin DOMAIN hubnoteSessions']_vars

\* part_002: a session older than the TTL was returned by a lookup
C10_Witness ==
  /\ variant = "nonces"
  /\ reply.op = "lookup" /\ reply.found
  /\ reply.at > createdAt[reply.sessionId] + HUBNOTE_SESSION_TTL_MS

\* the session id is absent from the store, or its expiry time has passed
Gone(sessionId) == sessionId \notin DOMAIN hubnoteSessions \/ Expired(sessionId)

\* C11: a handler that looks up a session id that is absent or expired raises nothing, opens
\* no modal and calls no relay for it, and - whenever Slack accepts its message - tells the
\* user that the session expired and to run /hubnote again.
C11_GoneSessionAsksToReinvoke ==
  [][LookupStep /\ Gone(reply'.sessionId)
       => /\ ~reply'.failed /\ ~reply'.opened /\ ~reply'.relayed
          /\ reply'.slack => reply'.posted = "session_expired_rerun"]_vars

\* src/index.js: the Yes button of a session that has expired asks to run /hubnote again
C11_Witness ==
  /\ variant = "index"
  /\ reply.op = "lookup" /\ reply.handler = "hubnote_add_files_yes"
  /\ reply.sessionId \in DOMAIN createdAt
  /\ reply.at > createdAt[reply.sessionId] + HUBNOTE_SESSION_TTL_MS
  /\ reply.posted = "session_expired_rerun"
  /\ reply.sessionId \notin DOMAIN hubnoteSessions

\* this step handled a click on No
DeclineStep == reply'.op = "decline" /\ reply' # reply

\* C12: a click on No raises nothing and leaves the store without the session id and
\* otherwise unchanged - so a click for an id that is not stored changes nothing - and,
\* when the session was stored and Slack accepts the message, it shows the confirmation;
\* a later lookup of that id finds nothing.
C12_NoDeletesSessionIdempotently ==
  [][/\ DeclineStep
          => /\ ~reply'.failed
             /\ hubnoteSessions' = MapDelete(hubnoteSessions, reply'.sessionId)
             /\ reply'.sessionId \in DOMAIN hubnoteSessions /\ reply'.slack
                  => reply'.posted = "declined_confirmation"
     /\ LookupStep /\ reply'.sessionId \notin DOMAIN hubnoteSessions => ~reply'.found]_vars

\* a click on No for a stored session removed it and showed the confirmation
C12_Witness ==
  /\ reply.op = "decline" /\ reply.found /\ reply.posted = "declined_confirmation"
  /\ reply.sessionId \in DOMAIN createdAt
  /\ reply.sessionId \notin DOMAIN hubnoteSessions

---------------------------------------------------------------------------
(* Properties of the submission *)

\* the block_ids of the inputs of a view
ViewBlockIds(v) ==
  {v.blocks[f] : f \in SelectFields}
    \cup {BlockId("record_type_block_v2", ""), BlockId("note_title_block_v2", ""),
          BlockId("note_body_block_v2", "")}

\* the values the submit handler of the running snapshot reads, and its errors object
SubmitRead(v) ==
  IF variant = "index" THEN Index_SubmitRead(v)
  ELSE IF variant = "nonces" THEN Nonces_SubmitRead(v) ELSE Overwrite_SubmitRead(v)

SubmitErrors(r) ==
  IF variant = "index" THEN Index_SubmitErrors(r)
  ELSE IF variant = "nonces" THEN Nonces_SubmitErrors(r) ELSE Overwrite_SubmitErrors(r)

\* the submit handler consumed ev in this step
Submitted(ev) == ev \in inbox /\ ev \notin inbox' /\ ev.kind = "submit"

\* the fields of a submission that hold no value
MissingFields(r) == {f \in DOMAIN r : r[f] = ""}

\* the block of the submitted view that holds a field
FieldBlock(v, f) ==
  IF f = "recordType" THEN BlockId("record_type_block_v2", "")
  ELSE IF f = "pipelineId" THEN v.blocks.pipeline
  ELSE IF f = "stageId" THEN v.blocks.stage
  ELSE IF f = "recordId" THEN v.blocks.record
  ELSE IF f = "noteTitle" THEN BlockId("note_title_block_v2", "")
  ELSE BlockId("note_body_block_v2", "")

\* C13: a submission in which record type, pipeline, stage, record, title or body is
\* missing is answered by the errors acknowledgment alone, its keys are the block_ids the
\* submitted view gives the missing fields, and nothing is sent to Zapier or HubSpot.
C13_MissingFieldAnsweredInline ==
  [][\A ev \in inbox :
       Submitted(ev) /\ MissingFields(SubmitRead(ev.view)) # {}
         => /\ trace' = <<"ack:errors">>
            /\ SubmitErrors(SubmitRead(ev.view))
                 = {FieldBlock(ev.view, f) : f \in MissingFields(SubmitRead(ev.view))}
            /\ SubmitErrors(SubmitRead(ev.view)) \subseteq ViewBlockIds(ev.view)
            /\ relay' = relay]_vars

\* part_002, second snapshot: a submission without a record was answered by errors
C13_Witness ==
  /\ variant = "overwrite" /\ view.open
  /\ lastHandler = <<"submit", SUBMIT>> /\ trace = <<"ack:errors">>
  /\ view.state.stage # "" /\ view.state.record = "" /\ view.state.body # ""
  /\ ~relay.sent

\* every select of the submitted view holds an id HubSpot knows, title and body are typed
AllFilled(v) ==
  /\ v.state.pipeline \in {"p1", "p2", "p3"} /\ v.state.stage \in {"s1", "s2", "s3", "s4"}
  /\ v.state.record \in AllRecordIds
  /\ SubmitRead(v).recordType \in RecordTypes
  /\ SubmitRead(v).pipelineId \in {"p1", "p2", "p3"}
  /\ SubmitRead(v).stageId \in {"s1", "s2", "s3", "s4"}
  /\ Trim(v.state.title) # "" /\ Trim(v.state.body) # ""

\* C14: a submission with every field filled is acknowledged without errors before anything
\* else, then exactly one call goes to the automation relay; the payload that call delivers
\* carries the record id selected in the view, a pipeline id and a stage id of the view or
\* its metadata, the typed title and body, and the correlation id and origin of the metadata.
C14_FilledSubmissionRelayedOnce ==
  [][\A ev \in inbox :
       Submitted(ev) /\ AllFilled(ev.view)
         => LET meta == parsePrivateMetadata(ev.view.private_metadata)
            IN /\ Head(trace') = "ack"
               /\ Cardinality(RelayCalls(trace')) = 1
               /\ "zapier:post" \in Range(trace')
                    => /\ relay'.sent
                       /\ relay'.hubspot_object_id = ev.view.state.record
                       /\ RelayedPipeline' \in {ev.view.state.pipeline, meta.pipelineId}
                       /\ RelayedStage' \in {ev.view.state.stage, meta.stageId}
                       /\ relay'.note_title = ev.view.state.title
                       /\ relay'.note_body = ev.view.state.body
                       /\ relay'.correlation_id = meta.correlationId
                       /\ relay'.origin_channel_id = meta.originChannelId
                       /\ relay'.origin_user_id = meta.originUserId]_vars

\* src/index.js: the filled submission was relayed
C14_Witness ==
  /\ variant = "index" /\ lastHandler = <<"submit", SUBMIT>>
  /\ Head(trace) = "ack" /\ "zapier:post" \in Range(trace)
  /\ relay.sent /\ relay.hubspot_object_id = "r1" /\ relay.hubspot_stage_id = "s1"
  /\ relay.correlation_id = CorrelationId /\ relay.origin_channel_id = OriginChannel

\* the relay call of the submission failed: the workflow instance is FAILED
RelayFailed == lastHandler = <<"submit", SUBMIT>> /\ "zapier:post:error" \in Range(trace)

\* the messages a handler run posted to the requester, delivered or rejected by Slack
Posts(tr) ==
  {i \in 1..Len(tr) : tr[i] \in {"slack:chat.postEphemeral", "slack:chat.postMessage",
                                 "slack:chat.postEphemeral:error",
                                 "slack:chat.postMessage:error"}}

\* C15: a submission whose relay call fails posts a failure message to the requester and
\* calls the relay once only; after that no callback creates a session or shows the
\* add-files prompt for the instance.
C15_RelayFailureIsTerminal ==
  [][/\ \A ev \in inbox :
          Submitted(ev) /\ "zapier:post:error" \in Range(trace')
            => Posts(trace') # {} /\ Cardinality(RelayCalls(trace')) = 1 /\ relay' = relay
     /\ RelayFailed /\ CallbackStep /\ reply'.body.correlation_id = CorrelationId
          => /\ hubnoteSessions' = hubnoteSessions
             /\ reply'.posted.kind # "add_files_prompt"]_vars

\* the relay call failed, the requester was told, and a callback arrived afterwards
C15_Witness ==
  /\ RelayFailed /\ "slack:chat.postEphemeral" \in Range(trace)
  /\ ~relay.sent
  /\ reply.op = "callback" /\ reply.body.correlation_id = CorrelationId

\* the calls of a handler run that failed
Failures(tr) ==
  {i \in 1..Len(tr) :
     tr[i] \in {"slack:views.open:error", "slack:views.update:error", "zapier:post:error",
                "hubspot:createNote:error", "hubspot:search:error",
                "slack:chat.postEphemeral:error", "slack:chat.postMessage:error"}}

\* what a handler run delivered to the user: a message, or the inline errors of the modal
Reports(tr) ==
  {i \in 1..Len(tr) :
     tr[i] \in {"slack:chat.postEphemeral", "slack:chat.postMessage", "ack:errors"}}

\* C16: a command, block-action or submission handler run in which a call failed has
\* delivered at least one message to the user.
C16_NoSilentFailure ==
  lastHandler[1] \in {"command", "action", "submit"} /\ Failures(trace) # {}
    => Reports(trace) # {}

\* /hubnote could not open the modal and told the user
C16_Witness ==
  /\ lastHandler = <<"command", "/hubnote">>
  /\ "slack:views.open:error" \in Range(trace)
  /\ Reports(trace) # {}

---------------------------------------------------------------------------
(* Properties of the option lists *)

\* the "select ... first" pseudo-options
SelectFirstValues ==
  {"SELECT_PIPELINE_FIRST", "SELECT_STAGE_FIRST", "__select_pipeline__", "__select_stage__"}

\* the calls to HubSpot made by a handler run
AdapterCalls(tr) ==
  {i \in 1..Len(tr) :
     tr[i] \in {"hubspot:pipelines", "hubspot:search", "hubspot:search:error",
                "hubspot:createNote", "hubspot:createNote:error"}}

\* C17: a stage option request whose metadata holds no pipelineId, and a record option
\* request whose metadata holds no pipelineId or no stageId, is answered by exactly one
\* "select ... first" pseudo-option, without any call to HubSpot.
C17_MissingParentAnsweredBySentinel ==
  /\ lastHandler[1] = "options"
  /\ \/ lastAnswer.field = "stage" /\ lastAnswer.under.pipelineId = ""
     \/ lastAnswer.field = "record"
          /\ (lastAnswer.under.pipelineId = "" \/ lastAnswer.under.stageId = "")
  => /\ Len(lastAnswer.options) = 1
     /\ lastAnswer.options[1].value \in SelectFirstValues
     /\ AdapterCalls(trace) = {}

\* src/index.js: a record list asked for with a pipeline and no stage stored
C17_Witness ==
  /\ variant = "index" /\ lastHandler = <<"options", "hubnote_v2_record_select">>
  /\ lastAnswer.field = "record"
  /\ lastAnswer.under.pipelineId = "p1" /\ lastAnswer.under.stageId = ""
  /\ OptionValues(lastAnswer.options) = {"SELECT_STAGE_FIRST"}
  /\ trace = <<"ack:options">>


\* C18: a pipeline option request whose metadata holds no recordType is answered by exactly
\* one "select ... first" pseudo-option, and no pipelines are fetched from HubSpot for it.
C18_PipelinesRequireRecordType ==
  /\ lastHandler = <<"options", PIPELINE_SELECT>>
  /\ lastAnswer.stored = ""
  => /\ Len(lastAnswer.options) = 1
     /\ lastAnswer.options[1].value \in SelectFirstValues \cup {"SELECT_RECORD_TYPE_FIRST"}
     /\ AdapterCalls(trace) = {}
     /\ "hubspot:pipelines:background" \notin Range(trace)

\* src/index.js: the metadata decoded to the empty state, and the ticket pipelines were listed
C18_Witness ==
  /\ variant = "index" /\ lastHandler = <<"options", PIPELINE_SELECT>>
  /\ lastAnswer.field = "pipeline" /\ lastAnswer.stored = ""
  /\ lastAnswer.under.recordType = "ticket"
  /\ OptionValues(lastAnswer.options) = {"p1", "p2"}
  /\ "hubspot:pipelines" \in Range(trace)

\* the values of the pseudo-options: "select ... first", "no ... found", loading, timed
\* out and error
SentinelValues ==
  SelectFirstValues \cup RetryValues \cup {"NO_PIPELINES", "NO_STAGES", "NO_RECORDS", "__none__"}

RelayedRecord == IF relay.sent THEN relay.hubspot_object_id ELSE ""

\* C19: no value of a pseudo-option is stored as pipelineId or stageId in the metadata of
\* the modal, and none is sent to the relay as the pipeline, the stage or the record.
C19_SentinelsNeverStoredNorRelayed ==
  /\ view.open => /\ ModalState(view).pipelineId \notin SentinelValues
                  /\ ModalState(view).stageId \notin SentinelValues
  /\ relay.sent => /\ RelayedPipeline \notin SentinelValues
                   /\ RelayedStage \notin SentinelValues
                   /\ RelayedRecord \notin SentinelValues

\* src/index.js: "Select a pipeline first" was picked in the stage select and stored
C19_Witness ==
  /\ variant = "index" /\ lastHandler = <<"action", STAGE_SELECT>>
  /\ trace = <<"ack", "slack:views.update">>
  /\ ModalState(view).pipelineId = ""
  /\ ModalState(view).stageId = "SELECT_PIPELINE_FIRST"

\* Slack drops an options request that is not acknowledged within 3 seconds
SlackAckDeadlineMs == 3000

RECORD_SELECT == "hubnote_v2_record_select"

\* C20: a record option request is acknowledged before Slack's 3-second deadline, however
\* long the search takes: the handler waits for the search less than the deadline, and
\* when it gave up waiting it answered with the single "search timed out" pseudo-option.
C20_RecordSearchRacedAgainstTimeout ==
  lastHandler = <<"options", RECORD_SELECT>>
  => /\ "ack:options" \in Range(trace)
     /\ lastAnswer.waited < SlackAckDeadlineMs
     /\ lastAnswer.waited >= RaceMs
          => Len(lastAnswer.options) = 1 /\ lastAnswer.options[1].value = "__timeout__"

\* src/index.js: the search took 5 seconds and the handler answered when it was over
C20_Witness ==
  /\ variant = "index" /\ lastHandler = <<"options", RECORD_SELECT>>
  /\ lastAnswer.under = [recordType |-> "ticket", pipelineId |-> "p1", stageId |-> "s1"]
  /\ lastAnswer.waited = 5000
  /\ OptionValues(lastAnswer.options) = {"r1"}
  /\ trace = <<"hubspot:search", "ack:options">>

\* the ids of the pipelines HubSpot lists for a record type
PipelineIdsOf(recordType) ==
  {HubspotPipelines(recordType)[i].id : i \in 1..Len(HubspotPipelines(recordType))}

\* the pipeline list was available to the handler: fetched without an error, or cached
PipelinesListed(tr) ==
  "log" \notin Range(tr) /\ "hubspot:pipelines:background" \notin Range(tr)

\* C21: a stage option request whose stored pipelineId is not in the pipeline list that was
\* fetched (or cached) is acknowledged with an empty list or a single "no match"
\* pseudo-option: the handler does not throw and does not answer an error pseudo-option.
C21_UnknownPipelineAnsweredAsNoMatch ==
  /\ lastHandler = <<"options", STAGE_SELECT>>
  /\ lastAnswer.under.pipelineId \notin {"", "__loading__"}
  /\ lastAnswer.under.pipelineId \notin PipelineIdsOf(lastAnswer.under.recordType)
  /\ PipelinesListed(trace)
  => /\ trace[Len(trace)] = "ack:options" /\ "throw" \notin Range(trace)
     /\ \/ lastAnswer.options = << >>
        \/ Len(lastAnswer.options) = 1
             /\ lastAnswer.options[1].value \in {"NO_STAGES", "__none__"}

\* src/index.js: the deal pipeline p3 is stored while the record type is ticket
C21_Witness ==
  /\ variant = "index" /\ lastHandler = <<"options", STAGE_SELECT>>
  /\ lastAnswer.under = [recordType |-> "ticket", pipelineId |-> "p3", stageId |-> ""]
  /\ trace = <<"hubspot:pipelines", "ack:options">>
  /\ OptionValues(lastAnswer.options) = {"NO_STAGES"}

---------------------------------------------------------------------------
(* Properties of the list caches *)

\* a list fetch is made in this step
FetchStep == fetched'.n = fetched.n + 1

\* the time a cached list stays valid
TTL(fn) == IF fn = "hsGetPipelines" THEN HS_CACHE_MS ELSE CACHE_MS

\* the cache entry of a list, as the time it was stored and the options it yields
CacheEntry(c, fn, key) ==
  IF fn = "fetchBoards" THEN [at |-> c.boards.at, result |-> c.boards.options]
  ELSE IF fn = "fetchGroups"
  THEN [at |-> c.groupsByBoard[key].at, result |-> c.groupsByBoard[key].options]
  ELSE [at |-> c.pipelines[key].at, result |-> ToOptions(c.pipelines[key].pipelines)]

\* a fetch with an empty search term of a list the adapter has answered before: within
\* the TTL it is served from the cache, after the TTL the adapter's answer replaces the entry
ReadThrough ==
  FetchStep /\ SearchTerm(fetched'.search) = << >>
    /\ <<fetched'.fn, fetched'.key>> \in DOMAIN filled
  => LET last == filled[<<fetched'.fn, fetched'.key>>]
     IN IF now - last.at < TTL(fetched'.fn)
        THEN ~fetched'.invoked /\ fetched'.result = last.result
        ELSE /\ fetched'.invoked
             /\ fetched'.ok => CacheEntry(cache', fetched'.fn, fetched'.key)
                                 = [at |-> now, result |-> fetched'.result]

\* C22: a fetch with an empty search term made less than the TTL after the adapter answered
\* the same list is served from the cache without invoking the adapter, whatever the
\* adapter had answered; once the TTL has elapsed the adapter is invoked again and its
\* answer replaces the cache entry as a whole.
C22_CacheServesWithinTTL == [][ReadThrough]_vars

\* fetchBoards: monday.com answered no boards, and the next fetch within CACHE_MS asks again
C22_Witness ==
  /\ fetched.fn = "fetchBoards" /\ fetched.search = "" /\ fetched.invoked
  /\ <<"fetchBoards", "boards">> \in DOMAIN filled
  /\ fetched.n = 2 /\ now < CACHE_MS
  /\ cache.boards.options = << >>

\* the ids a list of a parent can hold
IdsUnder(fn, key) ==
  IF fn = "fetchBoards" THEN {"b1", "b2"}
  ELSE IF fn = "fetchGroups"
  THEN UNION {{groups[i].id : i \in 1..Len(groups)} : groups \in MondayGroups(key)}
  ELSE {HubspotPipelines(key)[i].id : i \in 1..Len(HubspotPipelines(key))}

\* a fetch with a search term goes to the adapter and leaves the caches alone; a list that
\* is served belongs to the parent that was asked for
KeyedByParentAndEmptySearch ==
  FetchStep
  => /\ SearchTerm(fetched'.search) # << >> => fetched'.invoked /\ cache' = cache
     /\ OptionValues(fetched'.result) \subseteq IdsUnder(fetched'.fn, fetched'.key)

\* C23: a list fetch with a non-empty search term always invokes the adapter and leaves
\* every cache entry and its timestamp unchanged, and the list returned for one parent
\* (board id, record type) never holds the entries cached for another parent.
C23_CacheKeyedByParentAndEmptySearch == [][KeyedByParentAndEmptySearch]_vars

\* hsGetPipelines: the ticket pipelines were asked for with the search term "s" while they
\* were cached, and HubSpot was not called
C23_Witness ==
  /\ fetched.fn = "hsGetPipelines" /\ fetched.key = "ticket" /\ fetched.search = "s"
  /\ ~fetched.invoked
  /\ OptionValues(fetched.result) = {"p1"}

---------------------------------------------------------------------------
(* Properties of the filtering of option lists *)

\* the positions of the items whose label contains the trimmed term, whatever the case
Hits(items, term) ==
  {i \in 1..Len(items) :
     includes(toLowerCase(Chars(items[i].label)), toLowerCase(trim(Chars(term))))}

\* the "none found" placeholders
NoneFoundValues == {"NO_PIPELINES", "NO_STAGES", "__none__", "NO_BOARDS_FOUND", "NO_GROUPS_FOUND"}

\* opts are the items at the positions hits, in their order, cut after the first hundred,
\* each with the id of its item as value; with no hit, nothing or a "none found" placeholder
ExactlyTheHits(opts, items, term) ==
  LET hits == Hits(items, term)
      n == IF Cardinality(hits) < 100 THEN Cardinality(hits) ELSE 100
  IN IF hits = {}
     THEN opts = << >> \/ (Len(opts) = 1 /\ opts[1].value \in NoneFoundValues)
     ELSE /\ Len(opts) = n
          /\ \A k \in 1..n :
               \E i \in hits : /\ Cardinality({j \in hits : j <= i}) = k
                                /\ opts[k].value = items[i].id

\* C24: the options answered for a pipeline, stage, board or group list whose parent is
\* stored and whose items the adapter delivered are exactly the items whose label contains
\* the trimmed search term, case-insensitively (all items for an empty term), in the
\* adapter's order, cut after the first 100, each option's value being the id of its item.
C24_OptionsAreTheMatchingItems ==
  /\ lastHandler = <<"options", PIPELINE_SELECT>> /\ PipelinesListed(trace)
     => ExactlyTheHits(lastAnswer.options, HubspotPipelines(lastAnswer.under.recordType),
                       lastAnswer.term)
  /\ lastHandler = <<"options", STAGE_SELECT>> /\ PipelinesListed(trace)
       /\ lastAnswer.under.pipelineId \notin {"", "__loading__"}
     => ExactlyTheHits(lastAnswer.options,
                       StagesOf(HubspotPipelines(lastAnswer.under.recordType),
                                lastAnswer.under.pipelineId),
                       lastAnswer.term)
  /\ fetched.fn \in {"fetchBoards", "fetchGroups"} /\ fetched.invoked /\ fetched.ok
     => ExactlyTheHits(fetched.options, fetched.items, fetched.search)

\* more than a hundred boards match " S ": the first hundred are answered
C24_Witness ==
  /\ fetched.fn = "fetchBoards" /\ fetched.search = " S " /\ fetched.invoked /\ fetched.ok
  /\ Len(fetched.items) = 101 /\ Len(fetched.options) = 100
  /\ fetched.options[100].value = "1100"

---------------------------------------------------------------------------
(* Properties of the text inputs *)

\* a record-type, pipeline or stage handler ends with an accepted views.update
Rebuild ==
  /\ \E ev \in inbox : ev.kind = "action" /\ inbox' = inbox \ {ev}
  /\ lastHandler'[1] = "action"
  /\ trace' = <<"ack", "slack:views.update">>

TitleAndBodyKept ==
  Rebuild => /\ view'.state.title = view.state.title
             /\ view'.state.body = view.state.body

\* C25: every rebuild of the modal by the record-type, pipeline or stage handler leaves the
\* note title and the note body the user typed as they were in the view before the rebuild.
C25_TypedTextSurvivesRebuild == [][TitleAndBodyKept]_vars

\* a rebuild ended while title and body were typed
C25_Witness ==
  /\ lastHandler[1] = "action" /\ trace = <<"ack", "slack:views.update">>
  /\ view.state.title = "Call recap" /\ view.state.body = "Spoke to the client"
  /\ view.hash > 0

---------------------------------------------------------------------------
(* Properties of the creation of a session *)

\* the callback stored a session
SessionCreated == CallbackStep /\ hubnoteSessions' # hubnoteSessions

\* the session is stored under an id the store never held, nothing else in the store
\* changes, the expiry time is 15 minutes from now, the payload is that of the callback
StoredUnderFreshId ==
  \E id \in DOMAIN hubnoteSessions' \ (DOMAIN hubnoteSessions \cup DOMAIN createdAt) :
    /\ DOMAIN hubnoteSessions' = DOMAIN hubnoteSessions \cup {id}
    /\ \A other \in DOMAIN hubnoteSessions : hubnoteSessions'[other] = hubnoteSessions[other]
    /\ hubnoteSessions'[id].expiresAt = now + 15 * 60 * 1000
    /\ hubnoteSessions'[id].sessionId = id
    /\ hubnoteSessions'[id].correlationId = reply'.body.correlation_id
    /\ hubnoteSessions'[id].hubspotNoteId = reply'.body.hubspot_note_id
    /\ hubnoteSessions'[id].hubspotObjectType = reply'.body.hubspot_object_type
    /\ hubnoteSessions'[id].hubspotObjectId = reply'.body.hubspot_object_id
    /\ hubnoteSessions'[id].originChannelId = reply'.body.origin_channel_id
    /\ hubnoteSessions'[id].originUserId = reply'.body.origin_user_id
    /\ reply'.posted.kind = "add_files_prompt" => reply'.posted.sessionId = id

\* a lookup of a stored session whose expiry time has not passed finds it
FoundUntilExpiry ==
  LET id == reply'.sessionId
  IN id \in DOMAIN hubnoteSessions /\ now <= hubnoteSessions[id].expiresAt
       => /\ reply'.found
          /\ id \in DOMAIN hubnoteSessions'
          /\ hubnoteSessions'[id].hubspotNoteId = hubnoteSessions[id].hubspotNoteId

CreateThenGet ==
  variant = "index" => /\ SessionCreated => StoredUnderFreshId
                       /\ LookupStep => FoundUntilExpiry

\* C26 (src/index.js): the callback stores the payload under a session id that the store
\* does not hold, with an expiry time exactly 15 minutes after the creation; a lookup of
\* that id at any time up to the expiry time finds the session.
C26_CreatedSessionFoundUntilExpiry == [][CreateThenGet]_vars

\* a session was found at the very moment of its expiry time
C26_Witness ==
  /\ variant = "index"
  /\ reply.op = "lookup" /\ reply.found
  /\ reply.handler = "hubnote_open_attach_modal"
  /\ reply.sessionId \in DOMAIN hubnoteSessions
  /\ reply.at = hubnoteSessions[reply.sessionId].expiresAt
  /\ reply.at = createdAt[reply.sessionId] + 15 * 60 * 1000

---------------------------------------------------------------------------
(* Properties of the correlation id and the origin *)

\* correlationId, originChannelId and originUserId as a view's private_metadata holds them
Identity(v) ==
  LET meta == parsePrivateMetadata(v.private_metadata)
  IN [correlationId |-> StrOr(meta, "correlationId", ""),
      originChannelId |-> StrOr(meta, "originChannelId", ""),
      originUserId |-> StrOr(meta, "originUserId", "")]

\* what /hubnote mints when it opens the modal
Minted ==
  [correlationId |-> CorrelationId, originChannelId |-> OriginChannel, originUserId |-> OriginUser]

IdentityFixed ==
  /\ view'.open /\ lastHandler'[1] = "command" => Identity(view') = Minted
  /\ view.open /\ view'.open => Identity(view') = Identity(view)
  /\ relay'.sent /\ ~relay.sent /\ "correlation_id" \in DOMAIN relay'
       => /\ relay'.correlation_id = Identity(view).correlationId
          /\ relay'.origin_channel_id = Identity(view).originChannelId
          /\ relay'.origin_user_id = Identity(view).originUserId
          /\ Identity(view) = Minted

\* C27: the correlationId, originChannelId and originUserId of the modal metadata are those
\* minted when /hubnote opened the modal; no handler changes them while the modal is open,
\* and the values relayed at submission are the minted ones.
C27_IdentityFixedAtOpen == [][IdentityFixed]_vars

\* src/index.js: a submission was relayed after the record type and the pipeline were changed
C27_Witness ==
  /\ variant = "index" /\ relay.sent
  /\ relay.correlation_id = CorrelationId /\ relay.origin_channel_id = OriginChannel
  /\ relay.hubspot_object_type = "deal"

---------------------------------------------------------------------------
(* Properties of POST /api/hubnote/create and of the shared secret *)

\* this step answered a request to create a note
CreateStep == response'.op = "create" /\ response' # response

NoNoteWithoutAssociation ==
  CreateStep /\ response'.status # 200 => \A note \in notes' \ notes : note.associated

\* C28: a request to POST /api/hubnote/create that is answered with an error leaves no
\* note in HubSpot that lacks its association to the ticket or deal.
C28_NoPartialApplicationOnError == [][NoNoteWithoutAssociation]_vars

\* src/index.js: the note was created, the association failed, the answer is 500
C28_Witness ==
  /\ variant = "index" /\ response.op = "create" /\ response.status = 500
  /\ response.calls = <<"POST notes", "GET labels", "PUT association">>
  /\ \E note \in notes : ~note.associated

\* the request does not carry the configured secret
WrongSecret(incoming) == env.ZAPIER_HUBNOTE_SECRET # "" /\ incoming # env.ZAPIER_HUBNOTE_SECRET

SecretGate ==
  /\ CreateStep /\ WrongSecret(response'.incoming)
       => /\ response'.status = 401 /\ response'.calls = << >>
          /\ UNCHANGED <<notes, hsAssocCache, hubnoteSessions, trace>>
  /\ CreateStep /\ env.ZAPIER_HUBNOTE_SECRET = "" => response'.status # 401
  /\ CallbackStep /\ WrongSecret(reply'.incoming)
       => /\ reply'.http = 401 /\ reply'.posted = NothingPosted
          /\ UNCHANGED <<hubnoteSessions, createdAt, calledBack, notes, trace>>
  /\ CallbackStep /\ env.ZAPIER_HUBNOTE_SECRET = "" => reply'.http # 401

---------------------------------------------------------------------------
(* Properties of a missing setting *)

\* the message of this run names the setting that is missing
NamesSetting(tr) ==
  \E i \in 1..Len(tr) :
    tr[i] \in {"text:ZAPIER_HUBNOTE_WEBHOOK_URL is missing", "text:ZAPIER_WEBHOOK_URL is missing",
               "text:Missing ZAPIER_HUBNOTE_TRIGGER_URL (or ZAPIER_WEBHOOK_URL)"}

\* the single option that reports a failure to load the list
ErrorValues ==
  {"ERROR_PIPELINES", "ERROR_STAGES", "ERROR_RECORDS", "__error__",
   "ERROR_LOADING_BOARDS", "ERROR_LOADING_GROUPS"}

ErrorAcked(opts) == Len(opts) = 1 /\ opts[1].value \in ErrorValues

\* the handler of a valid /hubnote submission ran: no inline error was answered
HubnoteSubmitted ==
  /\ lastHandler = <<"submit", SUBMIT>> /\ variant # "overwrite"
  /\ \A i \in 1..Len(trace) : trace[i] \notin {"ack:errors", "slack:views.update",
                                                 "slack:views.update:error"}

\* the handler of a valid /cstask submission ran and found the owner's e-mail address
CstaskSubmitted ==
  /\ lastHandler = <<"submit", "cstask_modal_submit">>
  /\ \E i \in 1..Len(trace) : trace[i] = "slack:users.info"

\* C30: a missing setting shows at the point of use - a valid /hubnote or /cstask
\* submission made while the relay webhook URL is not set calls no relay and posts a
\* message that names the setting; an option list asked for while the API token of its
\* adapter is not set is answered by the one option that reports the error.
C30_MissingSettingReportedAtUse ==
  /\ HubnoteSubmitted /\ env.ZAPIER_HUBNOTE_WEBHOOK_URL = "" /\ env.ZAPIER_WEBHOOK_URL = ""
       => RelayCalls(trace) = {} /\ NamesSetting(trace)
  /\ CstaskSubmitted /\ env.ZAPIER_WEBHOOK_URL = ""
       => RelayCalls(trace) = {} /\ NamesSetting(trace)
  /\ lastHandler[1] = "options" /\ env.HUBSPOT_PRIVATE_APP_TOKEN = ""
       => ErrorAcked(lastAnswer.options)
  /\ fetched.fn \in {"fetchBoards", "fetchGroups"} /\ fetched.invoked
       /\ env.MONDAY_API_TOKEN = ""
       => ErrorAcked(fetched.options)

\* src/index.js: with ZAPIER_WEBHOOK_URL not set, a task went to the hard-coded hook
C30_Witness ==
  /\ variant = "index" /\ env.ZAPIER_WEBHOOK_URL = ""
  /\ CstaskSubmitted /\ RelayCalls(trace) # {}
  /\ relay.sent /\ relay.url = HardCodedWebhook


---------------------------------------------------------------------------
(* Properties of the metadata codec *)

\* the state a modal holds before anything was selected
NoPriorState(ctx) == ctx.pipelineId = "" /\ ctx.stageId = ""

ValidStates ==
  [correlationId : {CorrelationId}, originChannelId : {OriginChannel}, originUserId : {OriginUser},
   recordType : RecordTypes \cup {""}, pipelineId : {"", "p1", "p3"}, stageId : {"", "s1"},
   depsNonce : {"0", "1", "2"}]

\* the keys of the state in the metadata of each snapshot
StateKeys ==
  {"correlationId", "originChannelId", "originUserId", "recordType", "pipelineId", "stageId"}
  \cup (IF variant = "index" THEN {"depsNonce"}
        ELSE IF variant = "nonces" THEN NumberKeys ELSE {"recordId"})

\* decode(encode(st)) = st, and the metadata of the view built from st decodes to st
RoundTrip(st) ==
  /\ parsePrivateMetadata(JsonStringify(st)) = st
  /\ LET doc == Index_buildHubnoteModalV2(st.correlationId, st.originChannelId, st.originUserId, st)
         meta == parsePrivateMetadata(doc.private_metadata)
     IN \A k \in DOMAIN st : k \in DOMAIN meta /\ meta[k] = st[k]

---------------------------------------------------------------------------
(* Properties of the rendering *)

\* the arguments of the builder of part_002 (first snapshot)
NoncesArgs ==
  [correlationId : {CorrelationId}, originChannelId : {OriginChannel}, originUserId : {OriginUser},
   recordType : {"ticket"}, pipelineId : {"", "p1"}, stageId : {""},
   noncePipeline : 0..2, nonceStage : 0..2, nonceRecord : 0..2,
   noteTitleInitial : {""}, noteBodyInitial : {""}]

NonceKey(field) ==
  IF field = "pipeline" THEN "noncePipeline" ELSE IF field = "stage" THEN "nonceStage"
  ELSE "nonceRecord"

\* the suffix the block_id of a select has to carry for the nonce stored in the metadata
StoredNonce(md, field) ==
  LET meta == parsePrivateMetadata(md)
  IN IF variant = "index"
     THEN (IF field = "pipeline" THEN "" ELSE StrOr(meta, "depsNonce", "0"))
     ELSE IF variant = "nonces" THEN String(NumOr(meta, NonceKey(field), 0))
     ELSE ""

\* the builders render the nonce of their input, in the block ids and in the metadata
RendersItsInput ==
  /\ \A st \in ValidStates :
       LET doc == Index_buildHubnoteModalV2(st.correlationId, st.originChannelId, st.originUserId, st)
       IN /\ doc.blocks.stage[2] = st.depsNonce /\ doc.blocks.record[2] = st.depsNonce
          /\ parsePrivateMetadata(doc.private_metadata).depsNonce = st.depsNonce
  /\ \A a \in NoncesArgs :
       LET doc == Nonces_buildHubnoteModalV2(a)
       IN \A f \in SelectFields :
            /\ doc.blocks[f][2] = String(a[NonceKey(f)])
            /\ parsePrivateMetadata(doc.private_metadata)[NonceKey(f)] = a[NonceKey(f)]

\* this step handled a field-change event
FieldChangeHandled == \E ev \in inbox : ev \notin inbox' /\ ev.kind = "action"

NoncesSteady ==
  /\ RendersItsInput
  /\ view'.open
     => \A f \in SelectFields : view'.blocks[f][2] = StoredNonce(view'.private_metadata, f)
  /\ view.open /\ view'.open /\ (\E f \in SelectFields : view'.blocks[f] # view.blocks[f])
     => FieldChangeHandled /\ \A f \in SelectFields : NonceOf(view', f) >= NonceOf(view, f)

\* C33: a builder renders the nonce of the state it is given, in the block ids and in the
\* metadata, and advances none; in every view Slack holds the nonce in the block ids is the
\* one stored in its metadata; and a step changes the block id of a select of the open
\* modal only when it handles a field-change event, and then never to a smaller nonce.
C33_RenderingNeverAdvancesNonce == [][NoncesSteady]_vars

\* src/index.js: the view rebuilt after a record type was chosen carries nonce 1 in its
\* stage block id and in its metadata
C33_Witness ==
  /\ variant = "index" /\ view.open /\ lastHandler = <<"action", RECORD_TYPE_SELECT>>
  /\ view.blocks.stage = BlockId("stage_block_v2", "1")
  /\ parsePrivateMetadata(view.private_metadata).depsNonce = "1"

---------------------------------------------------------------------------
(* Properties of the acknowledgment *)

\* the calls of ack made by a handler run
AckCalls(tr) == {i \in 1..Len(tr) : tr[i] \in Acks \cup {"ack:options"}}

\* C34: every run of a command, block-action, option or view-submission handler calls ack
\* exactly once: none ends without an ack, and none acks a second time after the work that
\* follows its ack failed.
C34_AckExactlyOnce ==
  lastHandler[1] \in {"command", "action", "options", "submit"}
    => Cardinality(AckCalls(trace)) = 1

\* part_002, second snapshot: the note was created and the modal cleared, the confirmation
\* message failed, and the catch block acknowledged again with errors
C34_Witness ==
  /\ variant = "overwrite" /\ lastHandler = <<"submit", SUBMIT>>
  /\ trace = <<"hubspot:createNote", "ack:clear", "slack:chat.postMessage:error", "log",
               "ack:errors">>

---------------------------------------------------------------------------
(* Properties of the /cstask modal *)

\* C35: the group relayed by a /cstask submission was picked while the board relayed with
\* it was the stored board: a group picked under an earlier board is never relayed together
\* with a later board.
C35_RelayedGroupBelongsToRelayedBoard ==
  /\ lastHandler = <<"submit", "cstask_modal_submit">>
  /\ "zapier:post" \in Range(trace)
  => task.groupUnder = relay.monday_board_id

\* group g1 was picked under board b1, board b2 was selected afterwards, and the submission
\* relayed b2 with g1
C35_Witness ==
  /\ lastHandler = <<"submit", "cstask_modal_submit">> /\ "zapier:post" \in Range(trace)
  /\ relay.monday_board_id = "b2" /\ relay.monday_group_id = "g1"
  /\ task.groupUnder = "b1"

---------------------------------------------------------------------------
(* Properties of the sessions of one note *)

\* the correlation id a session was created for
SessionCorrelation(session) ==
  IF "correlationId" \in DOMAIN session THEN session.correlationId ELSE session.correlation_id

\* a session get would still return
Live(sessionId) ==
  /\ sessionId \in DOMAIN hubnoteSessions
  /\ "expiresAt" \in DOMAIN hubnoteSessions[sessionId] => now <= hubnoteSessions[sessionId].expiresAt

\* C36: at any time at most one live session exists per correlation id, also after the
\* callback for a note was delivered twice or was sent again after its prompt failed.
C36_OneLiveSessionPerNote ==
  \A a, b \in DOMAIN hubnoteSessions :
    /\ Live(a) /\ Live(b)
    /\ SessionCorrelation(hubnoteSessions[a]) = SessionCorrelation(hubnoteSessions[b])
    => a = b

\* src/index.js: the callback for one note was served twice; both sessions are live and the
\* second prompt was posted
C36_Witness ==
  /\ variant = "index" /\ Live(1) /\ Live(2)
  /\ hubnoteSessions[1].correlationId = hubnoteSessions[2].correlationId
  /\ hubnoteSessions[1].hubspotNoteId = hubnoteSessions[2].hubspotNoteId
  /\ reply.op = "callback" /\ reply.n = 2 /\ reply.http = 200
  /\ reply.posted.kind = "add_files_prompt" /\ reply.posted.sessionId = 2

---------------------------------------------------------------------------
(* Properties of the attachment relay *)

\* this step ran a handler of the attach flow for the session
HandledFor(sessionId) ==
  reply' # reply /\ reply'.op = "lookup" /\ reply'.sessionId = sessionId

AtMostOneRelay ==
  \A sessionId \in Attached : HandledFor(sessionId) => ~reply'.relayed

\* C37: once the attachment request of a session was relayed and confirmed, no later
\* interaction for the same session id (attach-modal submission, Yes click, DM button)
\* calls the attach relay again.
C37_AtMostOneAttachRelayPerSession == [][AtMostOneRelay]_vars

\* src/index.js: the attach modal of an attached session was submitted again and the relay
\* was called again
C37_Witness ==
  /\ variant = "index" /\ reply.op = "lookup" /\ reply.handler = "hubnote_attach_modal_submit"
  /\ reply.relayed /\ reply.posted = "attach_sent"
  /\ reply.sessionId \in Attached /\ reply.at > 0
  /\ reply.sessionId \in DOMAIN hubnoteSessions

---------------------------------------------------------------------------
(* Properties of the age of a served list *)

\* this step answers a list from a cache entry, without invoking the adapter
ServedFromCache ==
  FetchStep /\ ~fetched'.invoked /\ fetched'.fn \in {"fetchBoards", "fetchGroups", "hsGetPipelines"}

\* the time the adapter call that produced the cache entry of a list was issued
IssuedAt(fn, key) ==
  IF fn = "fetchBoards" THEN cache.boards.issued
  ELSE IF fn = "fetchGroups" THEN cache.groupsByBoard[key].issued
  ELSE cache.pipelines[key].issued

ServedFresh ==
  ServedFromCache => now - IssuedAt(fetched'.fn, fetched'.key) < TTL(fetched'.fn)

\* C38: an option list is never served from a cache once the TTL (60 s for the monday.com
\* boards and groups, 10 min for the HubSpot pipelines) has gone by since the adapter call
\* that produced it was issued, also when fetches for one key overlap and complete out of
\* order and when an options handler reads the pipeline cache itself.
C38_ServedListYoungerThanTTL == [][ServedFresh]_vars

\* the pipeline options handler of the snapshot with nonces answers the cached pipelines
\* ten minutes or more after the call that fetched them was issued
C38_Witness ==
  /\ variant = "nonces"
  /\ fetched.fn = "hsGetPipelines" /\ ~fetched.invoked /\ Len(fetched.result) > 0
  /\ fetched.key \in DOMAIN cache.pipelines
  /\ now - cache.pipelines[fetched.key].issued >= HS_CACHE_MS

---------------------------------------------------------------------------
(* Properties of the lifetime of a session *)

\* this step returns a session to a handler more than the TTL after the callback created it
ReturnedLate ==
  /\ LookupStep /\ reply'.found
  /\ reply'.sessionId \in DOMAIN calledBack
  /\ reply'.at > calledBack[reply'.sessionId] + HUBNOTE_SESSION_TTL_MS

\* this step changes the expiry of a session that is in the store
ExpiryMoved ==
  \E id \in DOMAIN hubnoteSessions \cap DOMAIN hubnoteSessions' :
    /\ "expiresAt" \in DOMAIN hubnoteSessions[id]
    /\ hubnoteSessions'[id].expiresAt # hubnoteSessions[id].expiresAt

\* C39: a session is never returned by a lookup more than 15 minutes after the callback
\* created it, whatever interactions (Yes click, DM prompt, attach modal) happen in
\* between, and no interaction moves the expiry of a stored session.
C39_SessionLifetimeNeverExtended == [][~ReturnedLate /\ ~ExpiryMoved]_vars

\* src/index.js: the attach modal finds a session more than 15 minutes after the callback
\* created it, because the Yes click stored it again
C39_Witness ==
  /\ variant = "index"
  /\ reply.op = "lookup" /\ reply.found /\ reply.handler = "hubnote_open_attach_modal"
  /\ reply.sessionId \in DOMAIN calledBack
  /\ reply.at > calledBack[reply.sessionId] + HUBNOTE_SESSION_TTL_MS
  /\ createdAt[reply.sessionId] > calledBack[reply.sessionId]

============================================================================
